---- MODULE Spec2Model ----
(***************************************************************************)
(* jsonbody: an HTTP middleware that decodes a request body as JSON,       *)
(* validates it against a sample-document schema and hands the decoded     *)
(* document to the next handler, plus a write-once JSON response Writer.   *)
(*                                                                         *)
(* The model follows the latest revision of each file:                     *)
(*   src/jsonbody.go  lines 215-359  (NewMiddleware, ServeHTTP, decodeBody)*)
(*   src/validate.go  lines 1-110    (parseSchema, the validator)          *)
(*   src/reader.go                   (Reader)                              *)
(*   src/unnamed/part_003 lines 1-55 (Writer)                              *)
(*                                                                         *)
(* and, for what the specification says about per-method schemas, the      *)
(* per-method revision:                                                    *)
(*   src/unnamed/part_005            (Middleware, NewMiddleware, ServeHTTP)*)
(*   src/unnamed/part_003 lines 57-207 (SetRequestSchema, validateReqBody) *)
(*                                                                         *)
(* Bytes are modelled at the granularity of JSON lexemes: a body is a      *)
(* sequence of tokens, and ContentLength counts tokens.                    *)
(***************************************************************************)
EXTENDS Integers, Sequences, FiniteSets, TLC

VARIABLES
    pc,         \* where the program is: "config", "configPanic", "idle",
                \* "handler" (inside next.ServeHTTP), "done", "panicked"
    schemaJSON, \* the schema text given to NewMiddleware
    schema,     \* middleware.schema
    req,        \* the request being handled, as the host delivered it
    outcome,    \* which exit ServeHTTP took for the current request
    transport,  \* the host's body stream: what the pipeline did to it
    rBody,      \* r.Body as the next handler sees it
    calls,      \* the calls made on the host's http.ResponseWriter, in order
    mwWritten,  \* the written flag of ServeHTTP's own Writer value
    copies,     \* written flags of the Writer values the handler holds
    nextCalls,  \* how often next.ServeHTTP was invoked for this request
    ops,        \* handler operations performed for this request
    hlog,       \* what the handler's WriteJSON/WriteErrors calls returned
    seen,       \* what the handler's last ReadAll of r.Body returned
    vIn,        \* validator harness: the (expected, actual) pair
    vOut,       \* validator harness: the returned error list, or pending
    nextArg,    \* per-method revision: the next given to NewMiddleware
    bodySchemas,\* per-method revision: the bodySchemas given to NewMiddleware
    mw,         \* per-method revision: the Middleware (Next, reqSchemas)
    g           \* per-method revision: the goroutines running ServeHTTP

vars == <<pc, schemaJSON, schema, req, outcome, transport, rBody, calls,
          mwWritten, copies, nextCalls, ops, hlog, seen, vIn, vOut,
          nextArg, bodySchemas, mw, g>>

\* the state of the per-method revision, and the state of the latest one
perMethodVars == <<nextArg, bodySchemas, mw, g>>
singleVars == <<schemaJSON, schema, req, outcome, transport, rBody, calls,
                mwWritten, copies, nextCalls, ops, hlog, seen, vIn, vOut>>

-----------------------------------------------------------------------------
(* Bounds of the model *)

\* handler operations per request
MaxHandlerOps == 2
\* Writer values a handler obtains from its http.ResponseWriter per request
MaxWriters == 2
\* elements of the arrays in the documents given to the validator
MaxElems == 2
\* goroutines running the per-method Middleware's ServeHTTP at a time
MaxGoroutines == 2

-----------------------------------------------------------------------------
(* Decoded JSON values (encoding/json into interface{}) *)

NoFields == <<>>
NoElems == <<>>

JNull == [kind |-> "null", val |-> "", fields |-> NoFields, elems |-> NoElems]
JBool(b) == [kind |-> "boolean", val |-> b, fields |-> NoFields, elems |-> NoElems]
JNum(n) == [kind |-> "number", val |-> n, fields |-> NoFields, elems |-> NoElems]
JStr(s) == [kind |-> "string", val |-> s, fields |-> NoFields, elems |-> NoElems]
JObj(f) == [kind |-> "object", val |-> "", fields |-> f, elems |-> NoElems]
JArr(s) == [kind |-> "array", val |-> "", fields |-> NoFields, elems |-> s]

\* a nil map[string]interface{}: no schema, or no body decoded
NilMap == [kind |-> "nilmap", val |-> "", fields |-> NoFields, elems |-> NoElems]
\* a Go value encoding/json cannot encode (a channel, a func)
Unencodable == [kind |-> "chan", val |-> "", fields |-> NoFields, elems |-> NoElems]

Keys(o) == DOMAIN o.fields

\* one-key and two-key objects
Obj1(k, v) == JObj([x \in {k} |-> v])
Obj2(k1, v1, k2, v2) == JObj([x \in {k1, k2} |-> IF x = k1 THEN v1 ELSE v2])

-----------------------------------------------------------------------------
(* JSON text as a sequence of lexemes *)

P(c) == [t |-> "punct", v |-> c]
StrTok(s) == [t |-> "str", v |-> s]
NumTok(n) == [t |-> "num", v |-> n]
LitTok(w) == [t |-> "lit", v |-> w]
Junk(w) == [t |-> "junk", v |-> w]
\* a zero byte of a freshly made []byte
NUL == [t |-> "nul", v |-> ""]

\* every key the model uses, in byte order (encoding/json sorts map keys)
KeyOrder == <<"?s", "a", "b", "errors", "n", "o", "s">>

SortedKeys(S) == SelectSeq(KeyOrder, LAMBDA k : k \in S)

RECURSIVE Marshal(_)
RECURSIVE MarshalMembers(_, _)
RECURSIVE MarshalElems(_)

MarshalMembers(o, ks) ==
    IF ks = <<>> THEN <<>>
    ELSE <<StrTok(Head(ks)), P(":")>> \o Marshal(o.fields[Head(ks)])
         \o (IF Len(ks) > 1 THEN <<P(",")>> ELSE <<>>)
         \o MarshalMembers(o, Tail(ks))

MarshalElems(s) ==
    IF s = <<>> THEN <<>>
    ELSE Marshal(Head(s))
         \o (IF Len(s) > 1 THEN <<P(",")>> ELSE <<>>)
         \o MarshalElems(Tail(s))

\* json.Marshal of a value that can be encoded
Marshal(v) ==
    CASE v.kind = "null" -> <<LitTok("null")>>
      [] v.kind = "nilmap" -> <<LitTok("null")>>
      [] v.kind = "boolean" -> <<LitTok(v.val)>>
      [] v.kind = "number" -> <<NumTok(v.val)>>
      [] v.kind = "string" -> <<StrTok(v.val)>>
      [] v.kind = "object" ->
            <<P("{")>> \o MarshalMembers(v, SortedKeys(Keys(v))) \o <<P("}")>>
      [] v.kind = "array" -> <<P("[")>> \o MarshalElems(v.elems) \o <<P("]")>>

CanMarshal(v) == v.kind # "chan"

\* the result of a parse step: ok, the value, the index after it
PFail == [ok |-> FALSE, val |-> JNull, next |-> 0]
POk(v, n) == [ok |-> TRUE, val |-> v, next |-> n]

IsP(toks, i, c) == i <= Len(toks) /\ toks[i] = P(c)

RECURSIVE ParseValue(_, _)
RECURSIVE ParseMembers(_, _, _)
RECURSIVE ParseElems(_, _, _)

\* members of an object after "{" or ",": acc is the map built so far
\* (a repeated key overwrites, as encoding/json does)
ParseMembers(toks, i, acc) ==
    IF i + 1 > Len(toks) \/ toks[i].t # "str" \/ toks[i + 1] # P(":") THEN PFail
    ELSE LET k == toks[i].v
             r == ParseValue(toks, i + 2)
             acc2 == [x \in DOMAIN acc \cup {k} |-> IF x = k THEN r.val ELSE acc[x]]
         IN  IF ~r.ok THEN PFail
             ELSE IF IsP(toks, r.next, "}") THEN POk(JObj(acc2), r.next + 1)
             ELSE IF IsP(toks, r.next, ",") THEN ParseMembers(toks, r.next + 1, acc2)
             ELSE PFail

ParseElems(toks, i, acc) ==
    LET r == ParseValue(toks, i)
    IN  IF ~r.ok THEN PFail
        ELSE IF IsP(toks, r.next, "]") THEN POk(JArr(Append(acc, r.val)), r.next + 1)
        ELSE IF IsP(toks, r.next, ",") THEN ParseElems(toks, r.next + 1, Append(acc, r.val))
        ELSE PFail

ParseValue(toks, i) ==
    IF i > Len(toks) THEN PFail
    ELSE LET tk == toks[i]
         IN  CASE tk.t = "str" -> POk(JStr(tk.v), i + 1)
               [] tk.t = "num" -> POk(JNum(tk.v), i + 1)
               [] tk.t = "lit" ->
                    IF tk.v = "null" THEN POk(JNull, i + 1)
                    ELSE IF tk.v \in {"true", "false"} THEN POk(JBool(tk.v), i + 1)
                    ELSE PFail
               [] tk = P("{") ->
                    IF IsP(toks, i + 1, "}") THEN POk(JObj(NoFields), i + 2)
                    ELSE ParseMembers(toks, i + 1, NoFields)
               [] tk = P("[") ->
                    IF IsP(toks, i + 1, "]") THEN POk(JArr(NoElems), i + 2)
                    ELSE ParseElems(toks, i + 1, NoElems)
               [] OTHER -> PFail

\* json.Unmarshal(data, &x) for x of type interface{}: the whole text must be
\* one JSON value
Unmarshal(toks) ==
    LET r == ParseValue(toks, 1)
    IN  IF r.ok /\ r.next = Len(toks) + 1 THEN [err |-> FALSE, val |-> r.val]
        ELSE [err |-> TRUE, val |-> JNull]

-----------------------------------------------------------------------------
(* validate.go: the schema parser and the structural validator *)

\* json.Unmarshal(data, &m) for m of type map[string]interface{}: JSON null
\* leaves the map nil without an error, any other non-object is an error
UnmarshalMap(toks) ==
    LET r == Unmarshal(toks)
    IN  IF r.err THEN [err |-> TRUE, val |-> NilMap]
        ELSE IF r.val.kind = "null" THEN [err |-> FALSE, val |-> NilMap]
        ELSE IF r.val.kind = "object" THEN [err |-> FALSE, val |-> r.val]
        ELSE [err |-> TRUE, val |-> NilMap]

parseSchema(text) ==
    IF text = <<>> THEN [err |-> FALSE, val |-> NilMap]
    ELSE UnmarshalMap(text)

\* strings.HasPrefix(k, "?") and strings.TrimPrefix(k, "?")
HasPrefix(k) == Len(k) >= 1 /\ SubSeq(k, 1, 1) = "?"
TrimPrefix(k) == IF HasPrefix(k) THEN SubSeq(k, 2, Len(k)) ELSE k

\* the orders in which a range over a Go map may visit the keys S
Perms(S) ==
    {p \in [1 .. Cardinality(S) -> S] : \A i, j \in DOMAIN p : i # j => p[i] # p[j]}

\* all concatenations of one list of A with one list of B
Cat(A, B) == {a \o b : a \in A, b \in B}

MissingMsg(newKey) == "expected key '" \o newKey \o "' missing"
TypeMsg(key, kind) == "value for key '" \o key \o "' expected to be of type " \o kind

\* fmt.Sprintf("%v[%v]", key, i) for the zero-based index i
IndexKey(key, i) == key \o "[" \o ToString(i) \o "]"

\* The validator's functions return, for a given (key, expected, actual), the
\* set of error lists a call can return: one list per order in which the
\* range loops over the template maps visit their keys.
RECURSIVE validateSingle(_, _, _)
RECURSIVE validateObject(_, _, _)
RECURSIVE validateArray(_, _, _)
RECURSIVE RangeExpected(_, _, _, _)
RECURSIVE RangeActual(_, _, _, _)

\* the iteration that takes no key for optional
ObjectEntryAllRequired(key, expected, actual, ek) ==
    LET expectedKey == TrimPrefix(ek)
        newKey == IF key = "" THEN expectedKey ELSE key \o "." \o expectedKey
    IN  IF expectedKey \notin Keys(actual) THEN {<<MissingMsg(newKey)>>}
        ELSE validateSingle(newKey, expected.fields[ek], actual.fields[expectedKey])

\* the iteration that builds the path from the template key as written
ObjectEntryMarkedPath(key, expected, actual, ek) ==
    LET optional == HasPrefix(ek)
        expectedKey == TrimPrefix(ek)
        newKey == IF key = "" THEN ek ELSE key \o "." \o ek
        ok == expectedKey \in Keys(actual)
    IN  IF ~optional /\ ~ok THEN {<<MissingMsg(newKey)>>}
        ELSE IF ok THEN validateSingle(newKey, expected.fields[ek], actual.fields[expectedKey])
        ELSE {<<>>}

\* the iteration that takes a null under an optional key for no value
ObjectEntryNullIsAbsent(key, expected, actual, ek) ==
    LET optional == HasPrefix(ek)
        expectedKey == TrimPrefix(ek)
        newKey == IF key = "" THEN expectedKey ELSE key \o "." \o expectedKey
        ok == /\ expectedKey \in Keys(actual)
              /\ ~(optional /\ actual.fields[expectedKey].kind = "null")
    IN  IF ~optional /\ ~ok THEN {<<MissingMsg(newKey)>>}
        ELSE IF ok THEN validateSingle(newKey, expected.fields[ek], actual.fields[expectedKey])
        ELSE {<<>>}

\* one iteration of validateObject's loop, for the template key ek
ObjectEntry(key, expected, actual, ek) ==
    LET optional == HasPrefix(ek)
        expectedKey == TrimPrefix(ek)
        newKey == IF key = "" THEN expectedKey ELSE key \o "." \o expectedKey
        ok == expectedKey \in Keys(actual)
    IN  IF ~optional /\ ~ok THEN {<<MissingMsg(newKey)>>}
        ELSE IF ok THEN validateSingle(newKey, expected.fields[ek], actual.fields[expectedKey])
        ELSE {<<>>}

\* validateObject's loop, visiting the template keys in the order given
RangeExpected(key, expected, actual, order) ==
    IF order = <<>> THEN {<<>>}
    ELSE Cat(ObjectEntry(key, expected, actual, Head(order)),
             RangeExpected(key, expected, actual, Tail(order)))

\* validateObject taking the template for a closed set of keys
validateObjectClosed(key, expected, actual) ==
    IF Cardinality(Keys(expected)) = 0 THEN {<<>>}
    ELSE Cat(UNION {RangeExpected(key, expected, actual, order) : order \in Perms(Keys(expected))},
             IF Keys(actual) \subseteq {TrimPrefix(k) : k \in Keys(expected)} THEN {<<>>}
             ELSE {<<"unexpected key">>})

\* validateObject returning at the first error it finds
validateObjectFirstError(key, expected, actual) ==
    IF Cardinality(Keys(expected)) = 0 THEN {<<>>}
    ELSE {IF Len(l) > 1 THEN <<l[1]>> ELSE l :
            l \in UNION {RangeExpected(key, expected, actual, order) : order \in Perms(Keys(expected))}}

validateObject(key, expected, actual) ==
    IF Cardinality(Keys(expected)) = 0 THEN {<<>>}
    ELSE UNION {RangeExpected(key, expected, actual, order) : order \in Perms(Keys(expected))}

\* validateArray's loop from the (one-based) position i of actual
RangeActual(key, expected, actual, i) ==
    IF i > Len(actual) THEN {<<>>}
    ELSE Cat(validateSingle(IndexKey(key, i - 1), expected[1], actual[i]),
             RangeActual(key, expected, actual, i + 1))

\* the validator taking an empty array template for "no elements"
validateArrayEmptyIsEmpty(key, expected, actual) ==
    IF Len(expected) = 0
    THEN IF Len(actual) = 0 THEN {<<>>} ELSE {<<TypeMsg(key, "array")>>}
    ELSE RangeActual(key, expected, actual, 1)

\* the validator with a loop that looks at the first element only
validateArrayFirstOnly(key, expected, actual) ==
    IF Len(expected) = 0 \/ Len(actual) = 0 THEN {<<>>}
    ELSE validateSingle(IndexKey(key, 0), expected[1], actual[1])

\* the validator checking the element at position i against the template's
\* element at position i (the last one, where the template is shorter)
validateArrayPositional(key, expected, actual) ==
    IF Len(expected) = 0 \/ Len(actual) = 0 THEN {<<>>}
    ELSE LET at(i) == IF i <= Len(expected) THEN expected[i] ELSE expected[Len(expected)]
             one == validateSingle(IndexKey(key, 0), at(1), actual[1])
         IN  IF Len(actual) = 1 THEN one
             ELSE IF Len(actual) = 2
             THEN Cat(one, validateSingle(IndexKey(key, 1), at(2), actual[2]))
             ELSE Cat(Cat(one, validateSingle(IndexKey(key, 1), at(2), actual[2])),
                      validateSingle(IndexKey(key, 2), at(3), actual[3]))

validateArray(key, expected, actual) ==
    IF Len(expected) = 0 THEN {<<>>}
    ELSE RangeActual(key, expected, actual, 1)

\* validateSingle going on into the template after a mismatch of kinds
validateSingleDescending(key, expected, actual) ==
    CASE expected.kind = "string" ->
            IF actual.kind # "string" THEN {<<TypeMsg(key, "string")>>} ELSE {<<>>}
      [] expected.kind = "boolean" ->
            IF actual.kind # "boolean" THEN {<<TypeMsg(key, "boolean")>>} ELSE {<<>>}
      [] expected.kind = "number" ->
            IF actual.kind # "number" THEN {<<TypeMsg(key, "number")>>} ELSE {<<>>}
      [] expected.kind = "array" ->
            IF actual.kind # "array" THEN {<<TypeMsg(key, "array")>>}
            ELSE validateArray(key, expected.elems, actual.elems)
      [] expected.kind = "object" ->
            IF actual.kind # "object"
            THEN Cat({<<TypeMsg(key, "object")>>}, validateObject(key, expected, JObj(NoFields)))
            ELSE validateObject(key, expected, actual)
      [] OTHER -> {<<>>}

\* validateSingle asking for a null where the template holds a null
validateSingleNullStrict(key, expected, actual) ==
    CASE expected.kind = "string" ->
            IF actual.kind # "string" THEN {<<TypeMsg(key, "string")>>} ELSE {<<>>}
      [] expected.kind = "boolean" ->
            IF actual.kind # "boolean" THEN {<<TypeMsg(key, "boolean")>>} ELSE {<<>>}
      [] expected.kind = "number" ->
            IF actual.kind # "number" THEN {<<TypeMsg(key, "number")>>} ELSE {<<>>}
      [] expected.kind = "array" ->
            IF actual.kind # "array" THEN {<<TypeMsg(key, "array")>>}
            ELSE validateArray(key, expected.elems, actual.elems)
      [] expected.kind = "object" ->
            IF actual.kind # "object" THEN {<<TypeMsg(key, "object")>>}
            ELSE validateObject(key, expected, actual)
      [] OTHER -> IF actual.kind # "null" THEN {<<TypeMsg(key, "null")>>} ELSE {<<>>}

validateSingle(key, expected, actual) ==
    CASE expected.kind = "string" ->
            IF actual.kind # "string" THEN {<<TypeMsg(key, "string")>>} ELSE {<<>>}
      [] expected.kind = "boolean" ->
            IF actual.kind # "boolean" THEN {<<TypeMsg(key, "boolean")>>} ELSE {<<>>}
      [] expected.kind = "number" ->
            IF actual.kind # "number" THEN {<<TypeMsg(key, "number")>>} ELSE {<<>>}
      [] expected.kind = "array" ->
            IF actual.kind # "array" THEN {<<TypeMsg(key, "array")>>}
            ELSE validateArray(key, expected.elems, actual.elems)
      [] expected.kind = "object" ->
            IF actual.kind # "object" THEN {<<TypeMsg(key, "object")>>}
            ELSE validateObject(key, expected, actual)
      [] OTHER -> {<<>>}

validateReqBody(expected, actual) ==
    IF expected = NilMap THEN {<<>>}
    ELSE IF actual = NilMap THEN {<<"expected a JSON body">>}
    ELSE validateObject("", expected, actual)

-----------------------------------------------------------------------------
(* The host's http.ResponseWriter, seen through the calls made on it *)

StatusOK == 200
StatusBadRequest == 400
StatusInternalServerError == 500

NoData == <<>>

HeaderSet(k, v) ==
    [op |-> "Header.Set", key |-> k, val |-> v, code |-> 0, data |-> NoData, ok |-> TRUE]
WriteHeaderCall(c) ==
    [op |-> "WriteHeader", key |-> "", val |-> "", code |-> c, data |-> NoData, ok |-> TRUE]
\* Write(bytes): ok is FALSE when the transport reports an error
WriteCall(bytes, wok) ==
    [op |-> "Write", key |-> "", val |-> "", code |-> 0, data |-> bytes, ok |-> wok]

StatusCalls(cs) == SelectSeq(cs, LAMBDA c : c.op = "WriteHeader")
BodyCalls(cs) == SelectSeq(cs, LAMBDA c : c.op = "Write")
SentBodies(cs) == SelectSeq(cs, LAMBDA c : c.op = "Write" /\ c.ok)

-----------------------------------------------------------------------------
(* Writer: the write-once JSON response helper *)

\* the w.WriteHeader(statusCode) step of WriteJSON(statusCode, body): the
\* revision of the Writer that takes a status code is called by ServeHTTP
\* (jsonbody.go:303) and by writer_test.go:218, and is not among the sources
WriteStatus(statusCode) == <<WriteHeaderCall(statusCode)>>

WriteResult(e, w, cs) == [err |-> e, written |-> w, calls |-> cs]

\* WriteJSON that writes the status before it sets the Content-Type
WriteJSONStatusFirst(written, statusCode, body, wok) ==
    IF written THEN WriteResult("already", written, <<>>)
    ELSE IF ~CanMarshal(body) THEN WriteResult("encode", written, <<>>)
    ELSE LET cs == WriteStatus(statusCode)
                   \o <<HeaderSet("Content-Type", "application/json")>>
                   \o <<WriteCall(Marshal(body), wok)>>
         IN  IF ~wok THEN WriteResult("send", written, cs)
             ELSE WriteResult("nil", TRUE, cs)

\* WriteJSON that sets the Content-Type before it encodes the value
WriteJSONHeaderFirst(written, statusCode, body, wok) ==
    IF written THEN WriteResult("already", written, <<>>)
    ELSE IF ~CanMarshal(body)
    THEN WriteResult("encode", written, <<HeaderSet("Content-Type", "application/json")>>)
    ELSE LET cs == <<HeaderSet("Content-Type", "application/json")>>
                   \o WriteStatus(statusCode)
                   \o <<WriteCall(Marshal(body), wok)>>
         IN  IF ~wok THEN WriteResult("send", written, cs)
             ELSE WriteResult("nil", TRUE, cs)

\* WriteJSON that sets the written flag although the Write failed
WriteJSONFlagsFailure(written, statusCode, body, wok) ==
    IF written THEN WriteResult("already", written, <<>>)
    ELSE IF ~CanMarshal(body) THEN WriteResult("encode", written, <<>>)
    ELSE LET cs == <<HeaderSet("Content-Type", "application/json")>>
                   \o WriteStatus(statusCode)
                   \o <<WriteCall(Marshal(body), wok)>>
         IN  WriteResult(IF wok THEN "nil" ELSE "send", TRUE, cs)

\* WriteJSON without the check of the written flag
WriteJSONUnguarded(written, statusCode, body, wok) ==
    IF ~CanMarshal(body) THEN WriteResult("encode", written, <<>>)
    ELSE LET cs == <<HeaderSet("Content-Type", "application/json")>>
                   \o WriteStatus(statusCode)
                   \o <<WriteCall(Marshal(body), wok)>>
         IN  IF ~wok THEN WriteResult("send", written, cs)
             ELSE WriteResult("nil", TRUE, cs)

\* (w *Writer).WriteJSON on a Writer whose written flag is `written`; wok
\* says whether the host's Write succeeds. Returns the error, the flag
\* afterwards and the calls made on the embedded ResponseWriter.
WriteJSON(written, statusCode, body, wok) ==
    IF written THEN WriteResult("already", written, <<>>)
    ELSE IF ~CanMarshal(body) THEN WriteResult("encode", written, <<>>)
    ELSE LET bytes == Marshal(body)
             cs == <<HeaderSet("Content-Type", "application/json")>>
                   \o WriteStatus(statusCode)
                   \o <<WriteCall(bytes, wok)>>
         IN  IF ~wok THEN WriteResult("send", written, cs)
             ELSE WriteResult("nil", TRUE, cs)

\* the envelope that keeps the first error only
ErrorsEnvelopeFirstOnly(errs) ==
    Obj1("errors", IF errs = <<>> THEN JNull ELSE JArr(<<JStr(errs[1])>>))

\* map[string][]string{"errors": errs}; no arguments give a nil slice
ErrorsEnvelope(errs) ==
    Obj1("errors", IF errs = <<>> THEN JNull
                   ELSE JArr([i \in 1 .. Len(errs) |-> JStr(errs[i])]))

WriteErrors(written, statusCode, errs, wok) ==
    WriteJSON(written, statusCode, ErrorsEnvelope(errs), wok)

-----------------------------------------------------------------------------
(* Reader: r.Body as handed to the next handler *)

\* reader: whether r.Body is a jsonbody.Reader; src: the stream it reads
\* ("transport": the host's body, "buffer": the bytes.Buffer of decodeBody)
BodyOf(isReader, src, buf, json) ==
    [reader |-> isReader, src |-> src, buf |-> buf, json |-> json, closed |-> FALSE]

\* Reader.JSON
JSON(r) == r.json

-----------------------------------------------------------------------------
(* jsonbody.go: decodeBody and ServeHTTP *)

DecodeResult(p, e, v, nreads, reset, buf) ==
    [panic |-> p, err |-> e, val |-> v, reads |-> nreads, closed |-> nreads > 0,
     reset |-> reset, buf |-> buf]

\* the buffer after make([]byte, ContentLength) and one Read that filled n bytes
ReadInto(r) ==
    [i \in 1 .. r.ContentLength |-> IF i <= r.read.n /\ i <= Len(r.body) THEN r.body[i] ELSE NUL]

\* decodeBody without  r.Body = ioutil.NopCloser(bytes.NewBuffer(body))
decodeBodyWithoutReset(r) ==
    IF r.ContentLength = 0 THEN DecodeResult(FALSE, "nil", NilMap, 0, FALSE, <<>>)
    ELSE IF r.ContentLength < 0 THEN DecodeResult(TRUE, "nil", NilMap, 0, FALSE, <<>>)
    ELSE LET body == ReadInto(r)
             u == Unmarshal(body)
         IN  IF r.read.err \notin {"nil", "EOF"}
             THEN DecodeResult(FALSE, "errServerErr", NilMap, 1, FALSE, <<>>)
             ELSE IF u.err THEN DecodeResult(FALSE, "errBadBody", NilMap, 1, FALSE, <<>>)
             ELSE IF u.val.kind # "object" THEN DecodeResult(TRUE, "nil", NilMap, 1, FALSE, <<>>)
             ELSE DecodeResult(FALSE, "nil", u.val, 1, FALSE, <<>>)

\* decodeBody returning no document for an object body
decodeBodyWithoutDocument(r) ==
    IF r.ContentLength = 0 THEN DecodeResult(FALSE, "nil", NilMap, 0, FALSE, <<>>)
    ELSE IF r.ContentLength < 0 THEN DecodeResult(TRUE, "nil", NilMap, 0, FALSE, <<>>)
    ELSE LET body == ReadInto(r)
             u == Unmarshal(body)
         IN  IF r.read.err \notin {"nil", "EOF"}
             THEN DecodeResult(FALSE, "errServerErr", NilMap, 1, FALSE, <<>>)
             ELSE IF u.err THEN DecodeResult(FALSE, "errBadBody", NilMap, 1, TRUE, body)
             ELSE IF u.val.kind # "object" THEN DecodeResult(TRUE, "nil", NilMap, 1, TRUE, body)
             ELSE DecodeResult(FALSE, "nil", NilMap, 1, TRUE, body)

\* decodeBody taking every error of Read for a body that is no JSON
decodeBodyFaultAsBadBody(r) ==
    IF r.ContentLength = 0 THEN DecodeResult(FALSE, "nil", NilMap, 0, FALSE, <<>>)
    ELSE IF r.ContentLength < 0 THEN DecodeResult(TRUE, "nil", NilMap, 0, FALSE, <<>>)
    ELSE LET body == ReadInto(r)
             u == Unmarshal(body)
         IN  IF r.read.err \notin {"nil", "EOF"} \/ u.err
             THEN DecodeResult(FALSE, "errBadBody", NilMap, 1, TRUE, body)
             ELSE IF u.val.kind # "object" THEN DecodeResult(TRUE, "nil", NilMap, 1, TRUE, body)
             ELSE DecodeResult(FALSE, "nil", u.val, 1, TRUE, body)

decodeBody(r) ==
    IF r.ContentLength = 0 THEN DecodeResult(FALSE, "nil", NilMap, 0, FALSE, <<>>)
    ELSE IF r.ContentLength < 0
    THEN \* make([]byte, n) with n < 0 panics
         DecodeResult(TRUE, "nil", NilMap, 0, FALSE, <<>>)
    ELSE LET body == ReadInto(r)
             u == Unmarshal(body)
         IN  IF r.read.err \notin {"nil", "EOF"}
             THEN DecodeResult(FALSE, "errServerErr", NilMap, 1, FALSE, <<>>)
             ELSE IF u.err THEN DecodeResult(FALSE, "errBadBody", NilMap, 1, TRUE, body)
             ELSE IF u.val.kind # "object"
             THEN \* bodyJSON.(map[string]interface{}) panics
                  DecodeResult(TRUE, "nil", NilMap, 1, TRUE, body)
             ELSE DecodeResult(FALSE, "nil", u.val, 1, TRUE, body)

\* what ServeHTTP leaves behind when it returns or calls next: the exit
\* taken, what its Writer did (w), what decodeBody did (d), the calls of next
Served(exit, w, d, n) == [outcome |-> exit, w |-> w, d |-> d, nextCalls |-> n]

NoWrite == WriteResult("nil", FALSE, <<>>)
NotDecoded == DecodeResult(FALSE, "nil", NilMap, 0, FALSE, <<>>)

\* the gate that lets a schema without keys through
contentTypeRejectedUnlessEmpty(sch, r) ==
    sch # NilMap /\ Keys(sch) # {} /\ r.contentType # "application/json"

\* m.schema != nil && r.Header.Get("Content-Type") != "application/json"
contentTypeRejected(sch, r) ==
    sch # NilMap /\ r.contentType # "application/json"

\* (m *middleware).ServeHTTP up to its return or its call of next: the set
\* of possible results (one per list validateReqBody can return)
Serve(sch, r, wok) ==
    IF contentTypeRejected(sch, r)
    THEN {Served("contentType",
                 WriteErrors(FALSE, StatusBadRequest, <<"content type must be application/json">>, wok),
                 NotDecoded, 0)}
    ELSE LET d == decodeBody(r)
         IN  IF d.panic THEN {Served("panic", NoWrite, d, 0)}
             ELSE IF d.err = "errBadBody"
             THEN {Served("badBody",
                          WriteErrors(FALSE, StatusBadRequest, <<"expected a JSON body">>, wok),
                          d, 0)}
             ELSE IF d.err # "nil"
             THEN {Served("serverErr",
                          WriteResult("nil", FALSE, <<WriteHeaderCall(StatusInternalServerError)>>),
                          d, 0)}
             ELSE {IF Len(errs) > 0
                   THEN Served("invalid", WriteErrors(FALSE, StatusBadRequest, errs, wok), d, 0)
                   ELSE Served("dispatched", NoWrite, d, 1)
                   : errs \in validateReqBody(sch, d.val)}

-----------------------------------------------------------------------------
(* The per-method revision: src/unnamed/part_005 (Middleware, NewMiddleware, *)
(* ServeHTTP) and src/unnamed/part_003 lines 57-207 (SetRequestSchema and   *)
(* its validateReqBody)                                                     *)

\* a map[string]map[string]interface{} without entries (nil or empty)
NoSchemas == <<>>

\* m.reqSchemas[method]: nil for a method without an entry
SchemaFor(reqSchemas, method) ==
    IF method \in DOMAIN reqSchemas THEN reqSchemas[method] ELSE NilMap

\* m.reqSchemas[method] = schema
WithSchema(reqSchemas, method, sch) ==
    [k \in DOMAIN reqSchemas \cup {method} |-> IF k = method THEN sch ELSE reqSchemas[k]]

\* the result of SetRequestSchema: the error and m.reqSchemas after the call
SetResult(e, reqSchemas) == [err |-> e, reqSchemas |-> reqSchemas]

\* SetRequestSchema taking a text it cannot decode for no schema
SetRequestSchemaLenient(reqSchemas, method, text) ==
    IF text = <<>> THEN SetResult(FALSE, WithSchema(reqSchemas, method, NilMap))
    ELSE SetResult(FALSE, WithSchema(reqSchemas, method, UnmarshalMap(text).val))

\* (m *Middleware) SetRequestSchema(method, schemaJSON)
SetRequestSchema(reqSchemas, method, text) ==
    IF text = <<>> THEN SetResult(FALSE, WithSchema(reqSchemas, method, NilMap))
    ELSE LET u == UnmarshalMap(text)
         IN  IF u.err THEN SetResult(TRUE, reqSchemas)
             ELSE SetResult(FALSE, WithSchema(reqSchemas, method, u.val))

\* NewMiddleware's loop over bodySchemas, visiting the methods in the order
\* given: it stops at the first text SetRequestSchema cannot decode
RECURSIVE RangeBodySchemas(_, _, _)
RangeBodySchemas(reqSchemas, schemas, order) ==
    IF order = <<>> THEN SetResult(FALSE, reqSchemas)
    ELSE LET r == SetRequestSchema(reqSchemas, Head(order), schemas[Head(order)])
         IN  IF r.err THEN r ELSE RangeBodySchemas(r.reqSchemas, schemas, Tail(order))

\* validateReqBody of the per-method revision
validateReqBodyPerMethod(expected, actual) ==
    IF expected = NilMap THEN {<<>>}
    ELSE IF actual = NilMap THEN {<<"expected request body">>}
    ELSE validateObject("", expected, actual)

\* ServeHTTP validating against the schema of some method that has one
ServePerMethodAnySchema(reqSchemas, r, wok) ==
    LET d == decodeBody(r)
        own == SchemaFor(reqSchemas, r.Method)
        others == {reqSchemas[k] : k \in DOMAIN reqSchemas} \ {NilMap}
        sch == IF own # NilMap \/ others = {} THEN own ELSE CHOOSE o \in others : TRUE
    IN  IF d.panic THEN {Served("panic", NoWrite, d, 0)}
        ELSE IF d.err = "errBadBody"
        THEN {Served("badBody",
                     WriteErrors(FALSE, StatusBadRequest, <<"expected a JSON body">>, wok),
                     d, 0)}
        ELSE IF d.err # "nil"
        THEN {Served("serverErr",
                     WriteResult("nil", FALSE, <<WriteHeaderCall(StatusInternalServerError)>>),
                     d, 0)}
        ELSE {IF Len(errs) > 0
              THEN Served("invalid", WriteErrors(FALSE, StatusBadRequest, errs, wok), d, 0)
              ELSE Served("dispatched", NoWrite, d, 1)
              : errs \in validateReqBodyPerMethod(sch, d.val)}

\* (m *Middleware).ServeHTTP from  writer := Writer{ResponseWriter: w}  up to
\* its return or its call of m.Next.ServeHTTP: the set of possible results
ServePerMethod(reqSchemas, r, wok) ==
    LET d == decodeBody(r)
    IN  IF d.panic THEN {Served("panic", NoWrite, d, 0)}
        ELSE IF d.err = "errBadBody"
        THEN {Served("badBody",
                     WriteErrors(FALSE, StatusBadRequest, <<"expected a JSON body">>, wok),
                     d, 0)}
        ELSE IF d.err # "nil"
        THEN {Served("serverErr",
                     WriteResult("nil", FALSE, <<WriteHeaderCall(StatusInternalServerError)>>),
                     d, 0)}
        ELSE {IF Len(errs) > 0
              THEN Served("invalid", WriteErrors(FALSE, StatusBadRequest, errs, wok), d, 0)
              ELSE Served("dispatched", NoWrite, d, 1)
              : errs \in validateReqBodyPerMethod(SchemaFor(reqSchemas, r.Method), d.val)}

-----------------------------------------------------------------------------
(* Inputs *)

ContentTypes == {"application/json", "text/html", "", "application/json; charset=utf-8"}

\* schema texts given to NewMiddleware: "", {}, {"s":""},
\* {"?s":"","o":{"n":0}}, {"a":[0]}, null, [] and the malformed {"s"
SchemaTexts ==
    { <<>>,
      Marshal(JObj(NoFields)),
      Marshal(Obj1("s", JStr(""))),
      Marshal(Obj2("?s", JStr(""), "o", Obj1("n", JNum("0")))),
      Marshal(Obj1("a", JArr(<<JNum("0")>>))),
      <<LitTok("null")>>,
      Marshal(JArr(NoElems)),
      <<P("{"), StrTok("s")>> }

\* request bodies: none, JSON objects, JSON values that are no objects, and
\* text that is no JSON
ObjectBodies ==
    { Marshal(JObj(NoFields)),
      Marshal(Obj1("s", JStr("hi"))),
      Marshal(Obj1("s", JNum("1"))),
      Marshal(Obj1("o", Obj1("n", JNum("1")))),
      Marshal(Obj2("o", Obj1("n", JStr("x")), "s", JStr("hi"))),
      Marshal(Obj1("a", JArr(<<JNum("0"), JStr("x")>>))),
      Marshal(Obj1("a", JArr(<<JNum("1")>>))) }

NonObjectBodies ==
    { Marshal(JArr(<<JNum("1")>>)), Marshal(JStr("hi")), Marshal(JNum("7")),
      Marshal(JBool("true")), Marshal(JNull) }

NotJSONBodies == { <<Junk("not"), Junk("json")>>, <<P("{"), StrTok("s"), P(":")>> }

Bodies == {<<>>} \cup ObjectBodies \cup NonObjectBodies \cup NotJSONBodies

\* what the single Read of decodeBody may return for a body of n bytes:
\* all of it (with or without io.EOF), a part of it, or a transport fault
ReadsOf(n) ==
    {[n |-> n, err |-> e] : e \in {"nil", "EOF"}}
    \cup {[n |-> k, err |-> "nil"] : k \in {j \in 1 .. n - 1 : j = 1 \/ j = n - 1}}
    \cup {[n |-> 0, err |-> "fault"]}

NoRead == [n |-> 0, err |-> "nil"]

Request(ct, cl, b, rd) == [contentType |-> ct, ContentLength |-> cl, body |-> b, read |-> rd]

\* ContentLength is the body's length, or -1 when the host does not know it
Requests ==
    UNION {
        {Request(ct, -1, b, NoRead) : ct \in ContentTypes}
        \cup {Request(ct, Len(b), b, rd) : ct \in ContentTypes,
                                         rd \in IF Len(b) = 0 THEN {NoRead} ELSE ReadsOf(Len(b))}
        : b \in Bodies}

NoRequest == Request("", 0, <<>>, NoRead)

\* what a handler passes to WriteJSON
HandlerValues == {JStr("hi"), Unencodable}
\* what a handler passes to WriteErrors
HandlerErrors == {<<"age must be positive">>}

\* what NewMiddleware of the per-method revision is given for next: nil
\* (ServeHTTP then takes http.DefaultServeMux) or a handler
NextHandlers == {"nil", "handler"}

\* the request methods of the model
Methods == {"POST", "PUT"}

\* schema texts of the per-method revision: "", {"s":""}, {"n":0}, null and
\* the malformed {"s"
MethodSchemaTexts ==
    { <<>>,
      Marshal(Obj1("s", JStr(""))),
      Marshal(Obj1("n", JNum("0"))),
      <<LitTok("null")>>,
      <<P("{"), StrTok("s")>> }

\* the bodySchemas maps: a text for none, one or both of the methods
BodySchemaMaps == UNION {[S -> MethodSchemaTexts] : S \in SUBSET Methods}

\* a request with its method
MethodRequest(method, r) ==
    [Method |-> method, contentType |-> r.contentType, ContentLength |-> r.ContentLength,
     body |-> r.body, read |-> r.read]

\* request bodies of the per-method revision: {"s":"hi"}, {"n":1}, {}, text
\* that is no JSON, and the JSON array [1]
MethodBodies ==
    { Marshal(Obj1("s", JStr("hi"))),
      Marshal(Obj1("n", JNum("1"))),
      Marshal(JObj(NoFields)),
      <<Junk("not"), Junk("json")>>,
      Marshal(JArr(<<JNum("1")>>)) }

\* no body (with its length known or not), each body read whole, and one
\* body whose Read fails
MethodRequests ==
    {MethodRequest(m, r) :
        m \in Methods,
        r \in {Request("application/json", 0, <<>>, NoRead),
               Request("application/json", -1, <<>>, NoRead),
               Request("application/json", 3, Marshal(JArr(<<JNum("1")>>)),
                       [n |-> 0, err |-> "fault"])}
              \cup {Request("application/json", Len(b), b, [n |-> Len(b), err |-> "EOF"])
                      : b \in MethodBodies}}

NoMethodRequest == MethodRequest("", NoRequest)

-----------------------------------------------------------------------------
(* State machine *)

UntouchedTransport == [reads |-> 0, closed |-> FALSE]
NoBody == BodyOf(FALSE, "transport", <<>>, NilMap)
NoValidation == [expected |-> NilMap, actual |-> NilMap]
Pending == [done |-> FALSE, errs |-> <<>>]

\* the per-method Middleware before NewMiddleware has run, and the nil
\* *Middleware it returns next to an error
NotConstructed == [Next |-> "none", reqSchemas |-> NoSchemas, built |-> FALSE]
NilMiddleware == [Next |-> "nil", reqSchemas |-> NoSchemas, built |-> FALSE]

Goroutines == 1 .. MaxGoroutines

\* a goroutine that runs no ServeHTTP
IdleGoroutine ==
    [pc |-> "idle", req |-> NoMethodRequest, outcome |-> "none", calls |-> <<>>,
     next |-> "none", json |-> NilMap]

\* the per-method revision is not in use
NoPerMethod ==
    /\ nextArg = "nil"
    /\ bodySchemas = NoSchemas
    /\ mw = NotConstructed
    /\ g = [i \in Goroutines |-> IdleGoroutine]

PerRequestInit ==
    /\ req = NoRequest
    /\ outcome = "none"
    /\ transport = UntouchedTransport
    /\ rBody = NoBody
    /\ calls = <<>>
    /\ mwWritten = FALSE
    /\ copies = <<>>
    /\ nextCalls = 0
    /\ ops = 0
    /\ hlog = <<>>
    /\ seen = <<>>

Init ==
    /\ pc = "config"
    /\ schemaJSON \in SchemaTexts
    /\ schema = NilMap
    /\ PerRequestInit
    /\ vIn = NoValidation
    /\ vOut = Pending
    /\ NoPerMethod

\* NewMiddleware(schemaJSON): panics when the schema cannot be parsed
NewMiddleware ==
    /\ pc = "config"
    /\ LET p == parseSchema(schemaJSON)
       IN  IF p.err THEN pc' = "configPanic" /\ UNCHANGED schema
           ELSE pc' = "idle" /\ schema' = p.val
    /\ UNCHANGED <<schemaJSON, req, outcome, transport, rBody, calls, mwWritten,
                   copies, nextCalls, ops, hlog, seen, vIn, vOut, perMethodVars>>

\* the host calls ServeHTTP with a request and a fresh response; the action
\* runs it to its return, its panic, or its call of next
ServeHTTP ==
    /\ pc = "idle"
    /\ \E r \in Requests, wok \in BOOLEAN :
         \E res \in Serve(schema, r, wok) :
            /\ req' = r
            /\ outcome' = res.outcome
            /\ calls' = res.w.calls
            /\ mwWritten' = res.w.written
            /\ transport' = [reads |-> res.d.reads, closed |-> res.d.closed]
            /\ rBody' = IF res.outcome = "dispatched"
                        THEN BodyOf(TRUE, IF res.d.reset THEN "buffer" ELSE "transport",
                                    res.d.buf, res.d.val)
                        ELSE BodyOf(FALSE, IF res.d.reset THEN "buffer" ELSE "transport",
                                    res.d.buf, NilMap)
            /\ nextCalls' = res.nextCalls
            /\ pc' = CASE res.outcome = "dispatched" -> "handler"
                       [] res.outcome = "panic" -> "panicked"
                       [] OTHER -> "done"
    /\ UNCHANGED <<schemaJSON, schema, copies, ops, hlog, seen, vIn, vOut, perMethodVars>>

\* the handler's  jsonWriter, ok := w.(jsonbody.Writer): w holds the Writer
\* value ServeHTTP passed, and the assertion yields a copy of it
HandlerGetWriter ==
    /\ pc = "handler"
    /\ Len(copies) < MaxWriters
    /\ copies' = Append(copies, mwWritten)
    /\ UNCHANGED <<pc, schemaJSON, schema, req, outcome, transport, rBody, calls,
                   mwWritten, nextCalls, ops, hlog, seen, vIn, vOut, perMethodVars>>

\* the record of one handler call of WriteJSON or WriteErrors on copy i:
\* arg is the value given to WriteJSON (by WriteErrors: the envelope)
Returned(method, i, statusCode, arg, res) ==
    [method |-> method, writer |-> i, code |-> statusCode, arg |-> arg, err |-> res.err,
     before |-> copies[i], ncalls |-> Len(res.calls)]

HandlerWriteJSON ==
    /\ pc = "handler"
    /\ ops < MaxHandlerOps
    /\ \E i \in DOMAIN copies, v \in HandlerValues, wok \in BOOLEAN :
         LET res == WriteJSON(copies[i], StatusOK, v, wok)
         IN  /\ copies' = [copies EXCEPT ![i] = res.written]
             /\ calls' = calls \o res.calls
             /\ hlog' = Append(hlog, Returned("WriteJSON", i, StatusOK, v, res))
    /\ ops' = ops + 1
    /\ UNCHANGED <<pc, schemaJSON, schema, req, outcome, transport, rBody,
                   mwWritten, nextCalls, seen, vIn, vOut, perMethodVars>>

HandlerWriteErrors ==
    /\ pc = "handler"
    /\ ops < MaxHandlerOps
    /\ \E i \in DOMAIN copies, es \in HandlerErrors, wok \in BOOLEAN :
         LET res == WriteErrors(copies[i], StatusBadRequest, es, wok)
         IN  /\ copies' = [copies EXCEPT ![i] = res.written]
             /\ calls' = calls \o res.calls
             /\ hlog' = Append(hlog, Returned("WriteErrors", i, StatusBadRequest, ErrorsEnvelope(es), res))
    /\ ops' = ops + 1
    /\ UNCHANGED <<pc, schemaJSON, schema, req, outcome, transport, rBody,
                   mwWritten, nextCalls, seen, vIn, vOut, perMethodVars>>

\* the handler calls w.WriteHeader itself, as the tests' mockHandler does
HandlerWriteHeader ==
    /\ pc = "handler"
    /\ ops < MaxHandlerOps
    /\ calls' = Append(calls, WriteHeaderCall(StatusOK))
    /\ ops' = ops + 1
    /\ UNCHANGED <<pc, schemaJSON, schema, req, outcome, transport, rBody,
                   mwWritten, copies, nextCalls, hlog, seen, vIn, vOut, perMethodVars>>

\* ioutil.ReadAll(r.Body)
HandlerReadAll ==
    /\ pc = "handler"
    /\ ops < MaxHandlerOps
    /\ IF rBody.src = "buffer"
       THEN /\ seen' = Append(seen, rBody.buf)
            /\ rBody' = [rBody EXCEPT !.buf = <<>>]
            /\ UNCHANGED transport
       ELSE /\ seen' = Append(seen, IF transport.reads = 0 THEN req.body ELSE <<>>)
            /\ transport' = [transport EXCEPT !.reads = @ + 1]
            /\ UNCHANGED rBody
    /\ ops' = ops + 1
    /\ UNCHANGED <<pc, schemaJSON, schema, req, outcome, calls, mwWritten,
                   copies, nextCalls, hlog, vIn, vOut, perMethodVars>>

\* r.Body.Close(): the Reader passes it to the stream it embeds; the
\* NopCloser around the buffer does nothing
HandlerClose ==
    /\ pc = "handler"
    /\ ops < MaxHandlerOps
    /\ rBody' = [rBody EXCEPT !.closed = TRUE]
    /\ transport' = IF rBody.src = "transport" THEN [transport EXCEPT !.closed = TRUE]
                    ELSE transport
    /\ ops' = ops + 1
    /\ UNCHANGED <<pc, schemaJSON, schema, req, outcome, calls, mwWritten,
                   copies, nextCalls, hlog, seen, vIn, vOut, perMethodVars>>

\* next.ServeHTTP returns, and so does ServeHTTP
HandlerReturn ==
    /\ pc = "handler"
    /\ pc' = "done"
    /\ UNCHANGED <<schemaJSON, schema, req, outcome, transport, rBody, calls,
                   mwWritten, copies, nextCalls, ops, hlog, seen, vIn, vOut, perMethodVars>>

\* the host is done with the request (it recovers a handler's panic) and
\* waits for the next one
NextRequest ==
    /\ pc \in {"done", "panicked"}
    /\ pc' = "idle"
    /\ req' = NoRequest
    /\ outcome' = "none"
    /\ transport' = UntouchedTransport
    /\ rBody' = NoBody
    /\ calls' = <<>>
    /\ mwWritten' = FALSE
    /\ copies' = <<>>
    /\ nextCalls' = 0
    /\ ops' = 0
    /\ hlog' = <<>>
    /\ seen' = <<>>
    /\ UNCHANGED <<schemaJSON, schema, vIn, vOut, perMethodVars>>

Next ==
    \/ NewMiddleware
    \/ ServeHTTP
    \/ HandlerGetWriter
    \/ HandlerWriteJSON
    \/ HandlerWriteErrors
    \/ HandlerWriteHeader
    \/ HandlerReadAll
    \/ HandlerClose
    \/ HandlerReturn
    \/ NextRequest

Spec == Init /\ [][Next]_vars

-----------------------------------------------------------------------------
(* The per-method revision as a state machine: NewMiddleware, then          *)
(* goroutines of the host running ServeHTTP on the one Middleware           *)

NoSingle ==
    /\ schemaJSON = <<>>
    /\ schema = NilMap
    /\ PerRequestInit
    /\ vIn = NoValidation
    /\ vOut = Pending

InitPerMethod ==
    /\ pc = "configPerMethod"
    /\ nextArg \in NextHandlers
    /\ bodySchemas \in BodySchemaMaps
    /\ mw = NotConstructed
    /\ g = [i \in Goroutines |-> IdleGoroutine]
    /\ NoSingle

\* NewMiddleware(next, bodySchemas): the range over the map visits the
\* methods in any order; on an error the caller gets a nil *Middleware
NewMiddlewarePerMethod ==
    /\ pc = "configPerMethod"
    /\ \E order \in Perms(DOMAIN bodySchemas) :
         LET res == RangeBodySchemas(NoSchemas, bodySchemas, order)
         IN  IF res.err THEN pc' = "configFailed" /\ mw' = NilMiddleware
             ELSE /\ pc' = "serving"
                  /\ mw' = [Next |-> nextArg, reqSchemas |-> res.reqSchemas, built |-> TRUE]
    /\ UNCHANGED <<nextArg, bodySchemas, g, singleVars>>

\* ServeHTTP is called in goroutine i and evaluates  m.Next == nil : while
\* another goroutine's store to m.Next is under way the read races with it
\* and may see either
ServeHTTPBegin(i) ==
    /\ pc = "serving"
    /\ g[i].pc = "idle"
    /\ \E r \in MethodRequests :
         \E isNil \in IF mw.Next = "torn" THEN BOOLEAN ELSE {mw.Next = "nil"} :
            g' = [g EXCEPT ![i] = [IdleGoroutine EXCEPT
                                     !.req = r,
                                     !.pc = IF isNil THEN "storeNext" ELSE "serve"]]
    /\ UNCHANGED <<pc, nextArg, bodySchemas, mw, singleVars>>

\* m.Next = http.DefaultServeMux : the store of the interface value (two
\* words) begins
StoreNextBegin(i) ==
    /\ pc = "serving"
    /\ g[i].pc = "storeNext"
    /\ mw' = [mw EXCEPT !.Next = IF @ = "nil" THEN "torn" ELSE @]
    /\ g' = [g EXCEPT ![i].pc = "storeNextEnd"]
    /\ UNCHANGED <<pc, nextArg, bodySchemas, singleVars>>

\* the store of m.Next is complete
StoreNextEnd(i) ==
    /\ pc = "serving"
    /\ g[i].pc = "storeNextEnd"
    /\ mw' = [mw EXCEPT !.Next = "DefaultServeMux"]
    /\ g' = [g EXCEPT ![i].pc = "serve"]
    /\ UNCHANGED <<pc, nextArg, bodySchemas, singleVars>>

\* what  m.Next.ServeHTTP(writer, r)  does: a read of m.Next that races with
\* a store under way may see a value no store has written, and calling it
\* panics
CallNext(value) == IF value = "torn" THEN {"panic", "DefaultServeMux"} ELSE {value}

\* the rest of ServeHTTP in goroutine i: decode, validate, respond or call
\* m.Next
ServeHTTPRest(i) ==
    /\ pc = "serving"
    /\ g[i].pc = "serve"
    /\ \E wok \in BOOLEAN :
         \E res \in ServePerMethod(mw.reqSchemas, g[i].req, wok) :
            \E called \in IF res.outcome = "dispatched" THEN CallNext(mw.Next) ELSE {"none"} :
               g' = [g EXCEPT ![i] = [pc |-> "done", req |-> g[i].req,
                                      outcome |-> IF called = "panic" THEN "panic" ELSE res.outcome,
                                      calls |-> res.w.calls,
                                      next |-> IF called = "panic" THEN "none" ELSE called,
                                      json |-> IF called \in {"panic", "none"} THEN NilMap
                                               ELSE res.d.val]]
    /\ UNCHANGED <<pc, nextArg, bodySchemas, mw, singleVars>>

\* the host is done with the request of goroutine i
GoroutineDone(i) ==
    /\ pc = "serving"
    /\ g[i].pc = "done"
    /\ g' = [g EXCEPT ![i] = IdleGoroutine]
    /\ UNCHANGED <<pc, nextArg, bodySchemas, mw, singleVars>>

NextPerMethod ==
    \/ NewMiddlewarePerMethod
    \/ \E i \in Goroutines :
          \/ ServeHTTPBegin(i)
          \/ StoreNextBegin(i)
          \/ StoreNextEnd(i)
          \/ ServeHTTPRest(i)
          \/ GoroutineDone(i)

SpecPerMethod == InitPerMethod /\ [][NextPerMethod]_vars

-----------------------------------------------------------------------------
(* Configuration alone: the constructor of the latest revision and the one  *)
(* of the per-method revision, each on its inputs                           *)

InitConfig ==
    \/ Init
    \/ InitPerMethod

NextConfig ==
    \/ NewMiddleware
    \/ NewMiddlewarePerMethod

SpecConfig == InitConfig /\ [][NextConfig]_vars

-----------------------------------------------------------------------------
(* The validator on its own: validateReqBody applied to a template and a   *)
(* document drawn from bounded sets                                        *)

\* template values: the five kinds, flat and nested
TLeaves == {JStr(""), JBool("false"), JNum("0"), JObj(NoFields), JArr(NoElems)}

TNested ==
    {JArr(<<l>>) : l \in TLeaves}
    \cup { JArr(<<JNum("0"), JStr("")>>),
           JArr(<<Obj1("n", JNum("0"))>>),
           Obj1("n", JNum("0")),
           Obj1("?n", JNum("0")),
           Obj1("n", JArr(<<JBool("true")>>)),
           Obj2("n", JNum("0"), "b", JBool("true")) }

TValues == TLeaves \cup TNested

\* template values that are or hold a JSON null, which json.Unmarshal decodes
\* to a nil interface{}
TNulls == {JNull, Obj1("n", JNull), Obj1("?n", JNull), JArr(<<JNull>>)}

Templates ==
    {JObj(NoFields)}
    \cup {Obj1(k, v) : k \in {"s", "?s"}, v \in TValues \cup TNulls}
    \cup {Obj2("s", v1, "?o", v2) : v1 \in TLeaves, v2 \in TLeaves}
    \cup {Obj2("s", JStr(""), "?s", JNum("0")), Obj2("a", JArr(<<JNum("0")>>), "o", Obj1("n", JNum("0"))),
          Obj2("s", JNull, "?o", JStr(""))}

\* document values: every JSON kind, flat and nested
ALeaves == {JStr("hi"), JBool("true"), JNum("1"), JNull, JObj(NoFields), JArr(NoElems)}

AElems == {JNum("1"), JStr("hi"), JObj(NoFields), Obj1("n", JNum("1"))}

AArrays == UNION {[1 .. n -> AElems] : n \in 1 .. MaxElems}

ANested ==
    {JArr(e) : e \in AArrays}
    \cup {Obj1("n", l) : l \in ALeaves}
    \cup {Obj2("n", JNum("1"), "b", JBool("false")), Obj1("b", JBool("false")),
          Obj1("n", JArr(<<JBool("false"), JNum("1")>>))}

AValues == ALeaves \cup ANested

Actuals ==
    {JObj(NoFields)}
    \cup {Obj1(k, v) : k \in {"s", "o", "?s"}, v \in AValues}
    \cup {Obj2("s", v1, "o", v2) : v1 \in ALeaves, v2 \in ALeaves}
    \cup {Obj2("a", JArr(e), "o", v) : e \in AArrays, v \in {JNull, Obj1("n", JNum("1"))}}

ValidatorInputs ==
    {[expected |-> t, actual |-> a] : t \in Templates \cup {NilMap}, a \in Actuals \cup {NilMap}}

InitValidate ==
    /\ pc = "validate"
    /\ schemaJSON = <<>>
    /\ schema = NilMap
    /\ PerRequestInit
    /\ vIn \in ValidatorInputs
    /\ vOut = Pending
    /\ NoPerMethod

Validate ==
    /\ pc = "validate"
    /\ ~vOut.done
    /\ \E errs \in validateReqBody(vIn.expected, vIn.actual) :
         vOut' = [done |-> TRUE, errs |-> errs]
    /\ UNCHANGED <<pc, schemaJSON, schema, req, outcome, transport, rBody, calls,
                   mwWritten, copies, nextCalls, ops, hlog, seen, vIn, perMethodVars>>

NextValidate == Validate

SpecValidate == InitValidate /\ [][NextValidate]_vars

-----------------------------------------------------------------------------
(* The reference relation "the document conforms to the template" *)

FiveKinds == {"string", "boolean", "number", "object", "array"}

RECURSIVE OfFiveKinds(_)
\* the template is built from the five kinds only
OfFiveKinds(t) ==
    /\ t.kind \in FiveKinds
    /\ \A k \in Keys(t) : OfFiveKinds(t.fields[k])
    /\ \A i \in DOMAIN t.elems : OfFiveKinds(t.elems[i])

RECURSIVE Conforms(_, _)
\* same kind; for an object template with members: every key it requires
\* is present and every key present in both conforms; for an array template
\* with elements: every element of the document conforms to the first one
Conforms(t, a) ==
    /\ t.kind = a.kind
    /\ t.kind = "object" /\ Keys(t) # {} =>
          \A ek \in Keys(t) :
             LET name == TrimPrefix(ek)
             IN  IF name \in Keys(a) THEN Conforms(t.fields[ek], a.fields[name])
                 ELSE HasPrefix(ek)
    /\ t.kind = "array" /\ Len(t.elems) > 0 =>
          \A i \in DOMAIN a.elems : Conforms(t.elems[1], a.elems[i])

-----------------------------------------------------------------------------
(* Claims *)

\* C3: for a template of the five kinds and an actual object, validateReqBody
\* returns the empty list exactly when the object conforms to the template
C3_SoundComplete ==
    (pc = "validate" /\ vOut.done /\ vIn.expected # NilMap /\ vIn.actual # NilMap
        /\ OfFiveKinds(vIn.expected))
    => ((vOut.errs = <<>>) <=> Conforms(vIn.expected, vIn.actual))

\* a nested template accepted for a document whose array has two elements,
\* both checked against the template's element
C3_Witness ==
    /\ pc = "validate" /\ vOut.done /\ vOut.errs = <<>>
    /\ vIn.expected = Obj2("a", JArr(<<JNum("0")>>), "o", Obj1("n", JNum("0")))
    /\ vIn.actual = Obj2("a", JArr(<<JNum("1"), JNum("1")>>), "o", Obj1("n", JNum("1")))

-----------------------------------------------------------------------------
(* What a request is, and what a response looks like, independently of     *)
(* ServeHTTP                                                               *)

\* ServeHTTP has run for the request in req
Served_ == pc \in {"handler", "done", "panicked"}

FailsContentType(sch, r) == sch # NilMap /\ r.contentType # "application/json"

\* the body is there and is no JSON text
BadJSON(r) == r.body # <<>> /\ Unmarshal(r.body).err

\* the transport reports a fault on the Read of the body
ReadFault(r) == r.read.err = "fault"

\* the request's document: absent without a body
DocumentOf(r) == IF r.body = <<>> THEN NilMap ELSE Unmarshal(r.body).val

IsObjectBody(r) == r.body # <<>> /\ ~Unmarshal(r.body).err /\ Unmarshal(r.body).val.kind = "object"

\* a schema is configured and the body is absent or an object that does not
\* conform to it
FailsValidation(sch, r) ==
    /\ sch # NilMap
    /\ \/ r.body = <<>>
       \/ IsObjectBody(r) /\ ~Conforms(sch, DocumentOf(r))

RequestFails(sch, r) ==
    FailsContentType(sch, r) \/ BadJSON(r) \/ ReadFault(r) \/ FailsValidation(sch, r)

\* the bytes of {"errors":[m]}
OneErrorBytes(m) ==
    <<P("{"), StrTok("errors"), P(":"), P("["), StrTok(m), P("]"), P("}")>>

\* the calls that emit one JSON response: the Content-Type and the status,
\* in either order, then one Write of the bytes
IsJSONResponse(cs, code, bytes) ==
    /\ Len(cs) = 3
    /\ {cs[1], cs[2]} = {HeaderSet("Content-Type", "application/json"), WriteHeaderCall(code)}
    /\ cs[3].op = "Write" /\ cs[3].data = bytes

\* C1: a request that fails the content-type check, the decode (bad JSON,
\* read fault) or the validation never reaches next and gets exactly one
\* error response: one status, at most one body
C1_ShortCircuit ==
    (Served_ /\ RequestFails(schema, req))
    => /\ nextCalls = 0
       /\ Len(StatusCalls(calls)) = 1
       /\ Len(BodyCalls(calls)) <= 1

\* C2: when all three checks pass, next is invoked exactly once with a
\* Writer that has written nothing and a Reader whose JSON() is the
\* request's document, and ServeHTTP itself has made no call on the
\* ResponseWriter
AllChecksPass(sch, r) ==
    /\ ~FailsContentType(sch, r)
    /\ ~decodeBody(r).panic /\ decodeBody(r).err = "nil"
    /\ sch # NilMap => DocumentOf(r) # NilMap /\ Conforms(sch, DocumentOf(r))

C2_Dispatch ==
    (Served_ /\ AllChecksPass(schema, req))
    => /\ nextCalls = 1
       /\ pc # "panicked"
       /\ rBody.reader
       /\ JSON(rBody) = DocumentOf(req)
       /\ mwWritten = FALSE
       /\ (ops = 0 => calls = <<>>)

\* next has just been called for a conforming body read in full
C2_Witness ==
    /\ pc = "handler" /\ ops = 0 /\ nextCalls = 1
    /\ schema = Obj2("?s", JStr(""), "o", Obj1("n", JNum("0")))
    /\ req.body = Marshal(Obj1("o", Obj1("n", JNum("1"))))
    /\ JSON(rBody) = Obj1("o", Obj1("n", JNum("1")))
    /\ calls = <<>>

\* C4: once a WriteJSON or WriteErrors call on a Writer has returned nil,
\* every later call of either method on that Writer returns an error and
\* makes no call on the ResponseWriter
C4_WriteOnce ==
    \A j, k \in DOMAIN hlog :
        (j < k /\ hlog[j].writer = hlog[k].writer /\ hlog[j].err = "nil")
        => (hlog[k].err # "nil" /\ hlog[k].ncalls = 0)

\* WriteJSON returned nil and a WriteErrors on the same Writer then failed,
\* leaving the three calls of the first
C4_Witness ==
    /\ Len(hlog) = 2
    /\ hlog[1].writer = hlog[2].writer
    /\ hlog[1].method = "WriteJSON" /\ hlog[1].err = "nil"
    /\ hlog[2].method = "WriteErrors" /\ hlog[2].err = "already" /\ hlog[2].ncalls = 0
    /\ Len(calls) = 3

\* C5: in the handling of one request at most one WriteJSON/WriteErrors call
\* returns nil, and at most one body is sent
C5_OneBodyPerRequest ==
    /\ Cardinality({k \in DOMAIN hlog : hlog[k].err = "nil"}) + (IF mwWritten THEN 1 ELSE 0) <= 1
    /\ Len(SentBodies(calls)) <= 1

\* C6: ServeHTTP ends with a failure response or with next called, never
\* with a panic
C6_NothingEscapes ==
    Served_ => /\ pc # "panicked"
               /\ nextCalls = 1 \/ Len(StatusCalls(calls)) = 1

\* C7: the response is the content-type rejection exactly when a schema is
\* configured and the Content-Type is not exactly application/json; then
\* next is not called and the body is neither read nor closed
C7_ContentTypeGate ==
    Served_
    => LET rejected == IsJSONResponse(calls, StatusBadRequest,
                                      OneErrorBytes("content type must be application/json"))
       IN  /\ rejected <=> FailsContentType(schema, req)
           /\ FailsContentType(schema, req)
              => /\ pc = "done"
                 /\ nextCalls = 0
                 /\ transport = UntouchedTransport
                 /\ ~rBody.reader /\ rBody.src = "transport"

\* the empty schema rejects a JSON content type with parameters, leaving a
\* well-formed body unread
C7_Witness ==
    /\ pc = "done"
    /\ schema = JObj(NoFields)
    /\ req.contentType = "application/json; charset=utf-8"
    /\ req.body = Marshal(Obj1("s", JStr("hi")))
    /\ IsJSONResponse(calls, StatusBadRequest, OneErrorBytes("content type must be application/json"))
    /\ transport.reads = 0

\* C8: past the content-type gate, a body that is there and is no JSON
\* text, read without a fault, is answered with 400 and
\* {"errors":["expected a JSON body"]}, and next is not called
C8_BadJSON ==
    (Served_ /\ ~FailsContentType(schema, req) /\ BadJSON(req) /\ ~ReadFault(req))
    => /\ IsJSONResponse(calls, StatusBadRequest, OneErrorBytes("expected a JSON body"))
       /\ nextCalls = 0

\* C9: validateReqBody accepts every document, an absent one too, under the
\* nil template and answers an absent document under any other template
\* with the one error "expected a JSON body"; so, past the content-type
\* gate, a request without body bytes reaches next when no schema is
\* configured and gets 400 {"errors":["expected a JSON body"]} when one is
C9_AbsentBody ==
    /\ (Served_ /\ schema = NilMap /\ (req.body = <<>> \/ IsObjectBody(req)))
       => validateReqBody(schema, DocumentOf(req)) = {<<>>}
    /\ (Served_ /\ schema # NilMap /\ req.body = <<>>)
       => validateReqBody(schema, DocumentOf(req)) = {<<"expected a JSON body">>}
    /\ (Served_ /\ ~FailsContentType(schema, req) /\ req.body = <<>>)
       => IF schema = NilMap
          THEN nextCalls = 1 /\ pc # "panicked"
          ELSE /\ IsJSONResponse(calls, StatusBadRequest, OneErrorBytes("expected a JSON body"))
               /\ nextCalls = 0

\* C10: a Read of the body that fails with an error other than io.EOF is
\* answered with the status 500 alone: no header, no body, next not called
C10_ReadFault ==
    (Served_ /\ transport.reads > 0 /\ ReadFault(req))
    => /\ calls = <<WriteHeaderCall(StatusInternalServerError)>>
       /\ nextCalls = 0
       /\ pc = "done"

\* the Read of a well-formed body failed
C10_Witness ==
    /\ pc = "done"
    /\ req.body = Marshal(Obj1("s", JStr("hi")))
    /\ req.read.err = "fault"
    /\ transport.reads = 1
    /\ calls = <<WriteHeaderCall(StatusInternalServerError)>>

\* the bytes of {"errors":[m1,...,mn]} for n >= 1, written out lexeme by lexeme
RECURSIVE CommaSeparated(_)
CommaSeparated(ms) ==
    IF Len(ms) = 1 THEN <<StrTok(ms[1])>>
    ELSE <<StrTok(ms[1]), P(",")>> \o CommaSeparated(Tail(ms))

EnvelopeBytes(ms) ==
    <<P("{"), StrTok("errors"), P(":"), P("[")>> \o CommaSeparated(ms) \o <<P("]"), P("}")>>

\* C11: when the validator returns a non-empty list, the response is 400
\* with the envelope of all its strings in its order, and next is not
\* called; WriteErrors emits the envelope of its arguments in their order
C11_AllErrors ==
    LET d == decodeBody(req)
        lists == validateReqBody(schema, d.val)
    IN  (Served_ /\ ~FailsContentType(schema, req) /\ ~d.panic /\ d.err = "nil" /\ <<>> \notin lists)
        => /\ nextCalls = 0
           /\ \E errs \in lists : IsJSONResponse(calls, StatusBadRequest, EnvelopeBytes(errs))

\* a body with a value of the wrong kind and a required key missing is
\* answered with both errors
C11_Witness ==
    /\ pc = "done"
    /\ schema = Obj2("?s", JStr(""), "o", Obj1("n", JNum("0")))
    /\ req.body = Marshal(Obj1("s", JNum("1")))
    /\ IsJSONResponse(calls, StatusBadRequest,
                      EnvelopeBytes(<<"expected key 'o' missing",
                                      "value for key 's' expected to be of type string">>))

\* C12: in the next handler, the first read of r.Body to its end returns
\* the bytes of the request's body, every later one returns nothing, and
\* JSON() is the request's document whatever was read or closed
C12_NonDestructive ==
    (pc \in {"handler", "done"} /\ nextCalls = 1)
    => /\ \A i \in DOMAIN seen : seen[i] = IF i = 1 THEN req.body ELSE <<>>
       /\ JSON(rBody) = DocumentOf(req)

\* the handler read a body of several bytes twice
C12_Witness ==
    /\ pc = "handler"
    /\ req.body = Marshal(Obj1("o", Obj1("n", JNum("1"))))
    /\ seen = <<req.body, <<>>>>
    /\ JSON(rBody) = Obj1("o", Obj1("n", JNum("1")))


\* the Write call that the k-th recorded WriteJSON/WriteErrors call made:
\* only the calls that got as far as the Write made any call
WriteOf(k) == BodyCalls(calls)[Cardinality({j \in 1 .. k : hlog[j].ncalls > 0})]

\* the calls recorded after the j-th on the same Writer
LaterOn(j) == {k \in DOMAIN hlog : k > j /\ hlog[k].writer = hlog[j].writer}

\* the first of them
NextOn(j) == CHOOSE k \in LaterOn(j) : \A m \in LaterOn(j) : k <= m

\* the written flag of the Writer after its j-th recorded call
FlagAfter(j) ==
    IF LaterOn(j) = {} THEN copies[hlog[j].writer] ELSE hlog[NextOn(j)].before

\* C13: a WriteJSON/WriteErrors call whose Write fails returns an error and
\* leaves the written flag false; the next call on that Writer is executed
\* and, if its Write succeeds, returns nil and sets the flag, after which
\* calls on that Writer are rejected
C13_RetryAfterFailure ==
    \A j \in DOMAIN hlog :
        (hlog[j].ncalls > 0 /\ ~WriteOf(j).ok)
        => /\ hlog[j].err = "send"
           /\ FlagAfter(j) = FALSE
           /\ LaterOn(j) # {}
              => LET k == NextOn(j)
                 IN  /\ hlog[k].err # "already"
                     /\ (hlog[k].ncalls > 0 /\ WriteOf(k).ok)
                        => /\ hlog[k].err = "nil"
                           /\ FlagAfter(k) = TRUE
                           /\ \A m \in LaterOn(k) : hlog[m].err = "already" /\ hlog[m].ncalls = 0

\* a WriteJSON failed in its Write and the WriteErrors that followed on the
\* same Writer went through
C13_Witness ==
    /\ Len(hlog) = 2 /\ Len(BodyCalls(calls)) = 2
    /\ hlog[1].writer = hlog[2].writer
    /\ hlog[1].method = "WriteJSON" /\ hlog[1].err = "send" /\ ~BodyCalls(calls)[1].ok
    /\ hlog[2].method = "WriteErrors" /\ hlog[2].err = "nil" /\ BodyCalls(calls)[2].ok
    /\ copies[hlog[1].writer] = TRUE

\* C14: a WriteJSON call with a value that cannot be encoded returns an
\* error, makes no call on the ResponseWriter (no header, no status, no
\* bytes) and leaves the written flag as it was
C14_EncodeFailure ==
    \A j \in DOMAIN hlog :
        hlog[j].arg = Unencodable
        => /\ hlog[j].err # "nil"
           /\ hlog[j].ncalls = 0
           /\ FlagAfter(j) = hlog[j].before

\* the first call on a Writer was given a channel
C14_Witness ==
    /\ Len(hlog) = 1
    /\ hlog[1].arg = Unencodable /\ hlog[1].err = "encode" /\ hlog[1].before = FALSE
    /\ copies[hlog[1].writer] = FALSE
    /\ calls = <<>>

\* where in calls the n-th Write call is
PosOfWrite(n) ==
    CHOOSE p \in DOMAIN calls :
        /\ calls[p].op = "Write"
        /\ Cardinality({q \in 1 .. p : calls[q].op = "Write"}) = n

\* the three calls that end with the Write of the k-th recorded call
CallsOf(k) ==
    LET p == PosOfWrite(Cardinality({j \in 1 .. k : hlog[j].ncalls > 0}))
    IN  SubSeq(calls, p - 2, p)

\* C15: a WriteJSON/WriteErrors call that returns nil has set the
\* Content-Type to application/json, then written the status code it was
\* given, then written the encoded value, and nothing else; the written
\* flag is set after it, and is not set when the Write failed
C15_HeaderStatusBody ==
    \A j \in DOMAIN hlog :
        /\ hlog[j].err = "nil"
           => /\ hlog[j].ncalls = 3
              /\ CallsOf(j) = <<HeaderSet("Content-Type", "application/json"),
                                WriteHeaderCall(hlog[j].code),
                                WriteCall(Marshal(hlog[j].arg), TRUE)>>
              /\ FlagAfter(j) = TRUE
        /\ hlog[j].err # "nil" => FlagAfter(j) = hlog[j].before

\* WriteErrors(400, "age must be positive") went through after the handler
\* had called WriteHeader itself
C15_Witness ==
    /\ Len(hlog) = 1 /\ Len(calls) = 4
    /\ hlog[1].method = "WriteErrors" /\ hlog[1].err = "nil"
    /\ calls[1] = WriteHeaderCall(StatusOK)
    /\ SubSeq(calls, 2, 4) = <<HeaderSet("Content-Type", "application/json"),
                               WriteHeaderCall(StatusBadRequest),
                               WriteCall(EnvelopeBytes(<<"age must be positive">>), TRUE)>>
    /\ copies[hlog[1].writer] = TRUE

-----------------------------------------------------------------------------
(* Relations between documents, for the validator's algebraic properties *)

\* the keys a document may be given in addition, and the values under them
ExtraKeyNames == {"x", "s", "o", "n", "b", "?s"}
ExtraValues == {JNum("1"), Obj1("n", JStr("hi"))}

\* the object o with the value x under the key k
WithKey(o, k, x) == JObj([q \in Keys(o) \cup {k} |-> IF q = k THEN x ELSE o.fields[q]])

\* the object o without the key k
WithoutKey(o, k) == JObj([q \in Keys(o) \ {k} |-> o.fields[q]])

\* the array a with x at position i
WithElem(a, i, x) == JArr([a.elems EXCEPT ![i] = x])

\* the names the object templates in T look up in a document
NamedBy(T) == UNION {{TrimPrefix(q) : q \in Keys(t)} : t \in T}

\* the templates that the templates in T hold for the name k
TemplatesAt(T, k) == UNION {{t.fields[q] : q \in {q \in Keys(t) : TrimPrefix(q) = k}} : t \in T}

\* the documents that are v with one more key, which no template of T for
\* that place names: in v itself, in an object under a key of v, or in an
\* object that is an element of an array under a key of v
RECURSIVE Extensions(_, _)
Extensions(T, v) ==
    {WithKey(v, k, x) : k \in ExtraKeyNames \ (NamedBy(T) \cup Keys(v)), x \in ExtraValues}
    \cup UNION {
           IF v.fields[k].kind = "object"
           THEN {WithKey(v, k, e) :
                   e \in Extensions({t \in TemplatesAt(T, k) : t.kind = "object"}, v.fields[k])}
           ELSE IF v.fields[k].kind = "array"
           THEN UNION {
                  {WithKey(v, k, WithElem(v.fields[k], i, e)) :
                     e \in Extensions({t.elems[1] : t \in {u \in TemplatesAt(T, k) :
                                          u.kind = "array" /\ Len(u.elems) > 0
                                          /\ u.elems[1].kind = "object"}},
                                      v.fields[k].elems[i])}
                  : i \in {j \in DOMAIN v.fields[k].elems : v.fields[k].elems[j].kind = "object"}}
           ELSE {}
           : k \in Keys(v)}

\* C16: a document with one more key that the template does not name, at
\* the top or inside a nested object, gets the same result from
\* validateReqBody as the document without it
C16_Whitelist ==
    (pc = "validate" /\ vOut.done /\ vIn.actual # NilMap)
    => \A w \in Extensions({vIn.expected}, vIn.actual) :
          validateReqBody(vIn.expected, w) = validateReqBody(vIn.expected, vIn.actual)

\* a document rejected for a nested value has an extension inside that
\* nested object
C16_Witness ==
    /\ pc = "validate" /\ vOut.done
    /\ vIn.expected = Obj1("s", Obj1("n", JNum("0")))
    /\ vIn.actual = Obj1("s", Obj1("n", JStr("hi")))
    /\ vOut.errs = <<"value for key 's.n' expected to be of type number">>
    /\ Obj1("s", Obj2("n", JStr("hi"), "x", JNum("1"))) \in Extensions({vIn.expected}, vIn.actual)

\* the templates without members
EmptyTemplates == {JObj(NoFields), JArr(NoElems)}

\* what is due for the template key ek whose template only asks for a kind
KindOnly(ek, kind, actual) ==
    LET name == TrimPrefix(ek)
    IN  IF name \notin Keys(actual)
        THEN IF HasPrefix(ek) THEN <<>> ELSE <<MissingMsg(name)>>
        ELSE IF actual.fields[name].kind = kind THEN <<>>
        ELSE <<TypeMsg(name, kind)>>

\* C17: the empty object template accepts every object; under a key, an
\* empty object or array template accepts every object or array, whatever
\* it holds, and still asks for the key (unless optional) and for the kind
C17_EmptyTemplate ==
    (pc = "validate" /\ vOut.done /\ vIn.actual # NilMap)
    => /\ vIn.expected = JObj(NoFields) => vOut.errs = <<>>
       /\ \A ek \in {"s", "?s"}, e \in EmptyTemplates :
             vIn.expected = Obj1(ek, e) => vOut.errs = KindOnly(ek, e.kind, vIn.actual)
       /\ \A e1, e2 \in EmptyTemplates :
             vIn.expected = Obj2("s", e1, "?o", e2)
             => \/ vOut.errs = KindOnly("s", e1.kind, vIn.actual) \o KindOnly("?o", e2.kind, vIn.actual)
                \/ vOut.errs = KindOnly("?o", e2.kind, vIn.actual) \o KindOnly("s", e1.kind, vIn.actual)
       /\ \A ek \in {"s", "?s"}, e \in EmptyTemplates :
             (/\ vIn.expected = Obj1(ek, JArr(<<e>>))
              /\ "s" \in Keys(vIn.actual)
              /\ vIn.actual.fields["s"].kind = "array"
              /\ \A i \in DOMAIN vIn.actual.fields["s"].elems :
                    vIn.actual.fields["s"].elems[i].kind = e.kind)
             => vOut.errs = <<>>

\* an empty array template under a key accepted an array of a number and
\* an object
C17_Witness ==
    /\ pc = "validate" /\ vOut.done
    /\ vIn.expected = Obj1("s", JArr(NoElems))
    /\ vIn.actual = Obj1("s", JArr(<<JNum("1"), Obj1("n", JNum("1"))>>))
    /\ vOut.errs = <<>>

\* how often the string e occurs in the list L
Count(e, L) == Cardinality({i \in DOMAIN L : L[i] = e})

\* the documents that are v without one field the template t names, each
\* with the path of the field and with how t names it: in v itself, in an
\* object under a key of v, or in an object in an array under a key of v
RECURSIVE Removals(_, _, _)
Removals(t, v, prefix) ==
    {[doc |-> WithoutKey(v, name), path |-> prefix \o name,
      optional |-> ("?" \o name) \in Keys(t), required |-> name \in Keys(t)]
       : name \in Keys(v) \cap NamedBy({t})}
    \cup UNION {
           LET name == TrimPrefix(ek)
               te == t.fields[ek]
           IN  IF name \notin Keys(v) THEN {}
               ELSE IF te.kind = "object" /\ v.fields[name].kind = "object"
               THEN {[r EXCEPT !.doc = WithKey(v, name, r.doc)]
                       : r \in Removals(te, v.fields[name], prefix \o name \o ".")}
               ELSE IF /\ te.kind = "array" /\ v.fields[name].kind = "array"
                       /\ Len(te.elems) > 0 /\ te.elems[1].kind = "object"
               THEN UNION {
                      {[r EXCEPT !.doc = WithKey(v, name, WithElem(v.fields[name], i, r.doc))]
                         : r \in Removals(te.elems[1], v.fields[name].elems[i],
                                          IndexKey(prefix \o name, i - 1) \o ".")}
                      : i \in {j \in DOMAIN v.fields[name].elems :
                                 v.fields[name].elems[j].kind = "object"}}
               ELSE {}
           : ek \in Keys(t)}

\* no list of After holds a string more often than the lists of Before
NoNewErrors(After, Before) ==
    \A a \in After, b \in Before : \A i \in DOMAIN a : Count(a[i], a) <= Count(a[i], b)

ExactlyOneMissing(After, path) ==
    \A a \in After : Count(MissingMsg(path), a) = 1

\* C18: removing from the document a field the template marks optional
\* adds no error, and removing a field the template requires leaves
\* exactly one "expected key '<path>' missing" for its path
C18_OptionalIndependence ==
    (pc = "validate" /\ vOut.done /\ vIn.expected # NilMap /\ vIn.actual # NilMap)
    => \A r \in Removals(vIn.expected, vIn.actual, "") :
          /\ r.optional => NoNewErrors(validateReqBody(vIn.expected, r.doc),
                                       validateReqBody(vIn.expected, vIn.actual))
          /\ r.required => ExactlyOneMissing(validateReqBody(vIn.expected, r.doc), r.path)

\* no object of the template names a field twice, as k and as ?k
RECURSIVE NamesOnce(_)
NamesOnce(t) ==
    /\ \A k \in Keys(t) : HasPrefix(k) => TrimPrefix(k) \notin Keys(t)
    /\ \A k \in Keys(t) : NamesOnce(t.fields[k])
    /\ \A i \in DOMAIN t.elems : NamesOnce(t.elems[i])

\* C18, amended: the same for the templates that name no field twice
C18_OptionalNotRequired ==
    (/\ pc = "validate" /\ vOut.done /\ vIn.expected # NilMap /\ vIn.actual # NilMap
     /\ NamesOnce(vIn.expected))
    => \A r \in Removals(vIn.expected, vIn.actual, "") :
          /\ r.optional => NoNewErrors(validateReqBody(vIn.expected, r.doc),
                                       validateReqBody(vIn.expected, vIn.actual))
          /\ r.required => ExactlyOneMissing(validateReqBody(vIn.expected, r.doc), r.path)

\* an optional field of the wrong kind, next to a required one, can be
\* removed
C18_Witness ==
    /\ pc = "validate" /\ vOut.done
    /\ vIn.expected = Obj2("s", JStr(""), "?o", JObj(NoFields))
    /\ vIn.actual = Obj2("s", JStr("hi"), "o", JNum("1"))
    /\ vOut.errs = <<"value for key 'o' expected to be of type object">>
    /\ [doc |-> Obj1("s", JStr("hi")), path |-> "o", optional |-> TRUE, required |-> FALSE]
          \in Removals(vIn.expected, vIn.actual, "")
    /\ validateReqBody(vIn.expected, Obj1("s", JStr("hi"))) = {<<>>}

\* C19: a second call of validateReqBody on the same template and document
\* returns the list the first call returned, string by string
C19_Deterministic ==
    (pc = "validate" /\ vOut.done)
    => \A again \in validateReqBody(vIn.expected, vIn.actual) : again = vOut.errs

\* the string e starts with the string p
StartsWith(e, p) == Len(e) >= Len(p) /\ SubSeq(e, 1, Len(p)) = p

\* the error e is about a place below the path: a field or an element of it
Below(e, path) ==
    \E head \in {"expected key '", "value for key '"}, sep \in {".", "["} :
        StartsWith(e, head \o path \o sep)

\* the places where the document holds a value of another kind than the
\* template asks for, with the kind asked for: under the keys of v, of the
\* objects in v and of the objects in its arrays, and at the elements of
\* its arrays
RECURSIVE Mismatches(_, _, _)
Mismatches(t, v, prefix) ==
    UNION {
      LET name == TrimPrefix(ek)
          te == t.fields[ek]
          path == prefix \o name
      IN  IF name \notin Keys(v) \/ te.kind \notin FiveKinds THEN {}
          ELSE IF v.fields[name].kind # te.kind THEN {[path |-> path, kind |-> te.kind]}
          ELSE IF te.kind = "object" /\ Keys(te) # {}
          THEN Mismatches(te, v.fields[name], path \o ".")
          ELSE IF te.kind = "array" /\ Len(te.elems) > 0 /\ te.elems[1].kind \in FiveKinds
          THEN UNION {
                 LET el == v.fields[name].elems[i]
                     at == IndexKey(path, i - 1)
                 IN  IF el.kind # te.elems[1].kind THEN {[path |-> at, kind |-> te.elems[1].kind]}
                     ELSE IF el.kind = "object" /\ Keys(te.elems[1]) # {}
                     THEN Mismatches(te.elems[1], el, at \o ".")
                     ELSE {}
                 : i \in DOMAIN v.fields[name].elems}
          ELSE {}
      : ek \in Keys(t)}

\* C20: where the document holds, under a key the template names, a value
\* of another kind than the template's, the list has exactly one error
\* naming that path and the kind asked for, and no error about anything
\* below that path
C20_KindMismatch ==
    (pc = "validate" /\ vOut.done /\ vIn.expected # NilMap /\ vIn.actual # NilMap)
    => \A m \in Mismatches(vIn.expected, vIn.actual, "") :
          /\ Count(TypeMsg(m.path, m.kind), vOut.errs) = 1
          /\ \A i \in DOMAIN vOut.errs : ~Below(vOut.errs[i], m.path)

\* a string where the template has an object with a required field
C20_Witness ==
    /\ pc = "validate" /\ vOut.done
    /\ vIn.expected = Obj1("s", Obj1("n", JNum("0")))
    /\ vIn.actual = Obj1("s", JStr("hi"))
    /\ Mismatches(vIn.expected, vIn.actual, "") = {[path |-> "s", kind |-> "object"]}
    /\ vOut.errs = <<"value for key 's' expected to be of type object">>

\* the places where the template holds an array with elements and the
\* document an array: under the keys of v and of the objects in v, each with
\* its path, the template's first element and the document's elements
RECURSIVE ArraySites(_, _, _)
ArraySites(t, v, prefix) ==
    UNION {
      LET name == TrimPrefix(ek)
          te == t.fields[ek]
      IN  IF name \notin Keys(v) \/ v.fields[name].kind # te.kind THEN {}
          ELSE IF te.kind = "array" /\ Len(te.elems) > 0
          THEN {[path |-> prefix \o name, first |-> te.elems[1], elems |-> v.fields[name].elems]}
          ELSE IF te.kind = "object" /\ Keys(te) # {}
          THEN ArraySites(te, v.fields[name], prefix \o name \o ".")
          ELSE {}
      : ek \in Keys(t)}

\* the error e is about an element of the array at the path
AboutElement(e, path) ==
    \E head \in {"expected key '", "value for key '"} : StartsWith(e, head \o path \o "[")

\* the lists made of the errors of the first element, then those of the
\* second, and so on: each element checked on its own against the template te
RECURSIVE InIndexOrder(_, _, _)
InIndexOrder(path, te, elems) ==
    IF elems = <<>> THEN {<<>>}
    ELSE Cat(InIndexOrder(path, te, SubSeq(elems, 1, Len(elems) - 1)),
             validateSingle(IndexKey(path, Len(elems) - 1), te, elems[Len(elems)]))

\* the template t with its arrays under the top-level keys cut to their
\* first element
FirstElementsOnly(t) ==
    JObj([k \in Keys(t) |->
            IF t.fields[k].kind = "array" /\ Len(t.fields[k].elems) > 1
            THEN JArr(<<t.fields[k].elems[1]>>) ELSE t.fields[k]])

\* C21: where the template holds an array with elements and the document an
\* array, the errors about the document's elements are the errors of each
\* element against the template's first element, one element after the
\* other in index order (none for an array without elements), and the
\* template's elements after the first change nothing
C21_Homogeneous ==
    (pc = "validate" /\ vOut.done /\ vIn.expected # NilMap /\ vIn.actual # NilMap)
    => /\ \A site \in ArraySites(vIn.expected, vIn.actual, "") :
             SelectSeq(vOut.errs, LAMBDA e : AboutElement(e, site.path))
                \in InIndexOrder(site.path, site.first, site.elems)
       /\ validateReqBody(FirstElementsOnly(vIn.expected), vIn.actual)
             = validateReqBody(vIn.expected, vIn.actual)

\* a template array of a number and a string: the second element of the
\* document, a string, is checked against the number
C21_Witness ==
    /\ pc = "validate" /\ vOut.done
    /\ vIn.expected = Obj1("s", JArr(<<JNum("0"), JStr("")>>))
    /\ vIn.actual = Obj1("s", JArr(<<JNum("1"), JStr("hi")>>))
    /\ ArraySites(vIn.expected, vIn.actual, "")
          = {[path |-> "s", first |-> JNum("0"), elems |-> <<JNum("1"), JStr("hi")>>]}
    /\ vOut.errs = <<"value for key 's[1]' expected to be of type number">>

\* the lengths of the lists in S
Lengths(S) == {Len(l) : l \in S}

\* the template keys of t whose field the object a holds too, and the
\* required ones whose field it lacks
InBoth(t, a) == {ek \in Keys(t) : TrimPrefix(ek) \in Keys(a)}
RequiredAbsent(t, a) == {ek \in Keys(t) : ~HasPrefix(ek) /\ ek \notin Keys(a)}

\* the sums of one error count per template key in ks: the number of errors
\* of validating the field the key names against the key's template
RECURSIVE Totals(_, _, _, _)
Totals(key, t, a, ks) ==
    IF ks = {} THEN {0}
    ELSE LET ek == CHOOSE k \in ks : TRUE
             name == TrimPrefix(ek)
             path == IF key = "" THEN name ELSE key \o "." \o name
         IN  {n + m : n \in Lengths(validateSingle(path, t.fields[ek], a.fields[name])),
                      m \in Totals(key, t, a, ks \ {ek})}

\* the error counts L are the required keys absent plus the errors of the
\* fields held by both
Accumulates(L, key, t, a) ==
    L = {Cardinality(RequiredAbsent(t, a)) + x : x \in Totals(key, t, a, InBoth(t, a))}

\* C22: for an object template with keys, the number of errors returned is
\* the number of required keys the document lacks plus the numbers of errors
\* of validating each field held by both; the same holds for the objects
\* under the document's keys
C22_Accumulation ==
    (/\ pc = "validate" /\ vOut.done /\ vIn.expected # NilMap /\ vIn.actual # NilMap
     /\ Keys(vIn.expected) # {})
    => /\ Accumulates({Len(vOut.errs)}, "", vIn.expected, vIn.actual)
       /\ \A ek \in InBoth(vIn.expected, vIn.actual) :
             LET te == vIn.expected.fields[ek]
                 av == vIn.actual.fields[TrimPrefix(ek)]
             IN  (te.kind = "object" /\ Keys(te) # {} /\ av.kind = "object")
                 => Accumulates(Lengths(validateObject(TrimPrefix(ek), te, av)),
                                TrimPrefix(ek), te, av)
       /\ vIn.actual = JObj(NoFields)
             => Len(vOut.errs) = Cardinality({ek \in Keys(vIn.expected) : ~HasPrefix(ek)})

\* one required key absent and one error inside a field held by both: the
\* list holds both errors
C22_Witness ==
    /\ pc = "validate" /\ vOut.done
    /\ vIn.expected = Obj2("a", JArr(<<JNum("0")>>), "o", Obj1("n", JNum("0")))
    /\ vIn.actual = Obj1("o", Obj1("n", JStr("hi")))
    /\ RequiredAbsent(vIn.expected, vIn.actual) = {"a"}
    /\ vOut.errs = <<"expected key 'a' missing", "value for key 'o.n' expected to be of type number">>

\* the errors that name a place of the document by its path from the root:
\* a field the template t names, by prefix and name; a field of an object
\* held there, by the object's path, a dot and the name; an element of an
\* array held there, by the array's path and [i], i counting from zero
RECURSIVE NamedFromRoot(_, _, _)
RECURSIVE NamedAt(_, _, _)
NamedAt(te, av, path) ==
    {TypeMsg(path, kind) : kind \in FiveKinds}
    \cup (IF te.kind = "object" /\ av.kind = "object" THEN NamedFromRoot(te, av, path \o ".")
          ELSE IF te.kind = "array" /\ av.kind = "array" /\ Len(te.elems) > 0
          THEN UNION {NamedAt(te.elems[1], av.elems[i], IndexKey(path, i - 1)) : i \in DOMAIN av.elems}
          ELSE {})

NamedFromRoot(t, v, prefix) ==
    UNION {
      LET name == TrimPrefix(ek)
          path == prefix \o name
      IN  {MissingMsg(path)}
          \cup (IF name \in Keys(v) THEN NamedAt(t.fields[ek], v.fields[name], path) ELSE {})
      : ek \in Keys(t)}

\* the string e holds the character c
HasChar(e, c) == \E j \in 1 .. Len(e) : SubSeq(e, j, j) = c

\* C23: every error names its key by the full path from the document's
\* root (names joined by '.', elements as [i] from zero, nothing before a
\* top-level name), and no error holds the optional marker '?'
C23_KeyPaths ==
    (pc = "validate" /\ vOut.done /\ vIn.expected # NilMap /\ vIn.actual # NilMap)
    => \A i \in DOMAIN vOut.errs :
          /\ vOut.errs[i] \in NamedFromRoot(vIn.expected, vIn.actual, "")
          /\ ~HasChar(vOut.errs[i], "?")
          /\ ~StartsWith(vOut.errs[i], "expected key '.")
          /\ ~StartsWith(vOut.errs[i], "value for key '.")

\* a field of the wrong kind inside an object under an optional key
C23_Witness ==
    /\ pc = "validate" /\ vOut.done
    /\ vIn.expected = Obj1("?s", Obj1("n", JNum("0")))
    /\ vIn.actual = Obj1("s", Obj1("n", JStr("hi")))
    /\ vOut.errs = <<"value for key 's.n' expected to be of type number">>

-----------------------------------------------------------------------------
(* Configuration *)

\* the text is no JSON
Malformed(text) == text # <<>> /\ Unmarshal(text).err

\* the text is that of a JSON object
IsObjectText(text) == ~Unmarshal(text).err /\ Unmarshal(text).val.kind = "object"

\* C24: once a constructor has run: the empty text gave no schema and no
\* error; a text that is no JSON gave no middleware (a panic of the
\* single-schema constructor; an error and a nil *Middleware of the
\* per-method one, whatever the other methods' texts); the text of an
\* object gave a middleware whose schema is that object
C24_SchemaParsing ==
    /\ pc \in {"idle", "configPanic"}
         => /\ schemaJSON = <<>> => (pc = "idle" /\ schema = NilMap)
            /\ Malformed(schemaJSON) => pc = "configPanic"
            /\ IsObjectText(schemaJSON)
                  => (pc = "idle" /\ schema.kind = "object" /\ Marshal(schema) = schemaJSON)
    /\ pc \in {"serving", "configFailed"}
         => IF \E m \in DOMAIN bodySchemas : Malformed(bodySchemas[m])
            THEN pc = "configFailed" /\ mw = NilMiddleware
            ELSE /\ pc = "serving" /\ mw.built /\ mw.Next = nextArg
                 /\ \A m \in Methods \ DOMAIN bodySchemas : SchemaFor(mw.reqSchemas, m) = NilMap
                 /\ \A m \in DOMAIN bodySchemas :
                       /\ bodySchemas[m] = <<>> => SchemaFor(mw.reqSchemas, m) = NilMap
                       /\ IsObjectText(bodySchemas[m])
                             => /\ SchemaFor(mw.reqSchemas, m).kind = "object"
                                /\ Marshal(SchemaFor(mw.reqSchemas, m)) = bodySchemas[m]

\* the per-method constructor given a good text for POST and a text that is
\* no JSON for PUT
C24_Witness ==
    /\ pc = "configFailed"
    /\ DOMAIN bodySchemas = {"POST", "PUT"}
    /\ bodySchemas["POST"] = Marshal(Obj1("s", JStr("")))
    /\ Malformed(bodySchemas["PUT"])
    /\ mw = NilMiddleware

-----------------------------------------------------------------------------
(* The per-method revision's requests *)

\* the template NewMiddleware was given for the method: none without an
\* entry, and none for the empty text and the text null
TemplateGiven(schemas, method) ==
    IF method \in DOMAIN schemas /\ IsObjectText(schemas[method])
    THEN Unmarshal(schemas[method]).val
    ELSE NilMap

\* the request has no body, or a body that is a JSON object and that the
\* one Read delivers whole
AbsentOrObject(r) ==
    \/ r.ContentLength = 0
    \/ /\ IsObjectBody(r) /\ r.ContentLength = Len(r.body)
       /\ r.read.n = Len(r.body) /\ r.read.err \in {"nil", "EOF"}

\* the request was answered with validation errors, and they are those of
\* its own method's template
RejectedByOwn(gi, own) ==
    /\ own # NilMap
    /\ DocumentOf(gi.req) = NilMap \/ ~Conforms(own, DocumentOf(gi.req))
    /\ \E errs \in validateReqBodyPerMethod(own, DocumentOf(gi.req)) :
          /\ Len(BodyCalls(gi.calls)) = 1
          /\ BodyCalls(gi.calls)[1].data = EnvelopeBytes(errs)

-----------------------------------------------------------------------------
(* The order of the checks *)

\* C26: the content type is checked before the body is touched, the body
\* is decoded before it is validated, and the response reports the first
\* check that fails and nothing else: a wrong content type gets the
\* content-type error alone, whatever the body, and a body that is no JSON
\* gets "expected a JSON body" alone
C26_CheckOrder ==
    Served_
    => /\ FailsContentType(schema, req)
             => /\ IsJSONResponse(calls, StatusBadRequest,
                                  OneErrorBytes("content type must be application/json"))
                /\ transport = UntouchedTransport
                /\ nextCalls = 0
       /\ (~FailsContentType(schema, req) /\ BadJSON(req) /\ ~ReadFault(req))
             => /\ IsJSONResponse(calls, StatusBadRequest, OneErrorBytes("expected a JSON body"))
                /\ nextCalls = 0

\* C27: a request whose content type passes, whose ContentLength is the
\* length of its body and whose body is a JSON object that conforms to the
\* schema reaches next with the whole document, in however many pieces the
\* transport's Read delivers the body (as long as Read reports no fault)
C27_ReadsEntireBody ==
    (/\ Served_
     /\ ~FailsContentType(schema, req)
     /\ req.ContentLength = Len(req.body)
     /\ IsObjectBody(req)
     /\ schema # NilMap => Conforms(schema, DocumentOf(req))
     /\ ~ReadFault(req))
    => /\ nextCalls = 1
       /\ JSON(rBody) = DocumentOf(req)

-----------------------------------------------------------------------------
(* Requests in several goroutines *)

\* what a request gets when ServeHTTP handles it alone on the Middleware as
\* NewMiddleware built it: the exit taken, the handler called and the
\* document handed to it
HandledAlone(r) ==
    LET handler == IF nextArg = "nil" THEN "DefaultServeMux" ELSE nextArg
    IN  {[outcome |-> res.outcome,
          next |-> IF res.outcome = "dispatched" THEN handler ELSE "none",
          json |-> IF res.outcome = "dispatched" THEN res.d.val ELSE NilMap]
           : res \in ServePerMethod([m \in DOMAIN bodySchemas |-> TemplateGiven(bodySchemas, m)],
                                    r, TRUE)}

\* C28: while requests are handled the Middleware's fields stay as
\* NewMiddleware set them (Next, the templates of reqSchemas), and every
\* request gets what it gets when it is handled alone, however the
\* goroutines' steps interleave
C28_NoSharedWrites ==
    pc = "serving"
    => /\ mw.Next = nextArg
       /\ \A m \in Methods : SchemaFor(mw.reqSchemas, m) = TemplateGiven(bodySchemas, m)
       /\ \A i \in Goroutines :
             g[i].pc = "done"
             => [outcome |-> g[i].outcome, next |-> g[i].next, json |-> g[i].json]
                   \in HandledAlone(g[i].req)

-----------------------------------------------------------------------------
(* Optional keys and null templates *)

\* the template t with its optional key ek made a required one
AsRequired(t, ek) ==
    JObj([k \in (Keys(t) \ {ek}) \cup {TrimPrefix(ek)} |->
            IF k = TrimPrefix(ek) THEN t.fields[ek] ELSE t.fields[k]])

\* the error e is about the field at the path or about something below it
About(e, path) ==
    \/ e = MissingMsg(path)
    \/ \E kind \in FiveKinds \cup {"null"} : e = TypeMsg(path, kind)
    \/ Below(e, path)

\* for the optional key ek of the object template t, found at the prefix:
\* a field of the document v under that name gets the errors it gets when
\* the key is required, and one kind error when its kind (null is one) is
\* not the template's; without the field there is no error about it
OptionalAsRequired(t, v, ek, prefix, errs) ==
    LET name == TrimPrefix(ek)
        te == t.fields[ek]
    IN  IF name \in Keys(v)
        THEN /\ validateObject(prefix, t, v) = validateObject(prefix, AsRequired(t, ek), v)
             /\ (te.kind \in FiveKinds /\ v.fields[name].kind # te.kind)
                   => Count(TypeMsg(IF prefix = "" THEN name ELSE prefix \o "." \o name, te.kind),
                            errs) = 1
        ELSE \A i \in DOMAIN errs :
                ~About(errs[i], IF prefix = "" THEN name ELSE prefix \o "." \o name)

\* the optional keys of the object template t that t does not name as
\* required too
OptionalKeys(t) == {ek \in Keys(t) : HasPrefix(ek) /\ TrimPrefix(ek) \notin Keys(t)}

\* C29: a field under an optional key is validated as under a required
\* key: a value of another kind than the template's, null included, gets
\* the kind error; only the field's absence passes. Checked at the top of
\* the document and in the objects under its keys
C29_OptionalPresent ==
    (pc = "validate" /\ vOut.done /\ vIn.expected # NilMap /\ vIn.actual # NilMap)
    => /\ \A ek \in OptionalKeys(vIn.expected) :
             OptionalAsRequired(vIn.expected, vIn.actual, ek, "", vOut.errs)
       /\ \A ek \in InBoth(vIn.expected, vIn.actual) :
             LET te == vIn.expected.fields[ek]
                 av == vIn.actual.fields[TrimPrefix(ek)]
             IN  (te.kind = "object" /\ av.kind = "object")
                 => \A ek2 \in OptionalKeys(te) :
                       OptionalAsRequired(te, av, ek2, TrimPrefix(ek), vOut.errs)

\* a null under an optional key whose template is a string
C29_Witness ==
    /\ pc = "validate" /\ vOut.done
    /\ vIn.expected = Obj1("?s", JStr(""))
    /\ vIn.actual = Obj1("s", JNull)
    /\ vOut.errs = <<"value for key 's' expected to be of type string">>

\* for the required key ek of the object template t whose template is a
\* null: no error about the field when the document v has it, one
\* missing-key error when it has not
NullAsksPresence(t, v, ek, prefix, errs) ==
    LET path == IF prefix = "" THEN ek ELSE prefix \o "." \o ek
    IN  IF ek \in Keys(v)
        THEN \A i \in DOMAIN errs : ~About(errs[i], path)
        ELSE /\ Count(MissingMsg(path), errs) = 1
             /\ \A i \in DOMAIN errs : About(errs[i], path) => errs[i] = MissingMsg(path)

\* the required keys of the object template t whose template is a null
NullKeys(t) == {ek \in Keys(t) : ~HasPrefix(ek) /\ t.fields[ek].kind = "null"}

====
